---------------------------- MODULE Spec2Model ----------------------------
(***************************************************************************)
(* Model of the local conformance operations of the compact DA relay       *)
(* engine, conformance/runner/run_cv_bundle.py, validate_local_vector:     *)
(*   - compact_state_machine   (the DA-set state machine A/B/C/EVICTED)    *)
(*   - compact_orphan_limits, compact_orphan_storm,                        *)
(*     compact_storm_commit_bearing   (admission control)                  *)
(*   - compact_eviction_tiebreak      (eviction order)                     *)
(*   - compact_peer_quality, compact_grace_period   (peer-quality score)   *)
(*   - compact_sendcmpct_modes        (relay mode of a phase)              *)
(*   - compact_witness_roundtrip and the compact-size encoders             *)
(*   - compact_duplicate_commit       (first commit retained)              *)
(*   - compact_prefill_roundtrip, compact_collision_fallback               *)
(*     (reconstruction of a block from prefilled and mempool entries)      *)
(*   - compact_grace_period and compact_peer_quality on the same inputs    *)
(* Each operation has its own specification; the variables of the other    *)
(* operations are held at their idle values.                               *)
(***************************************************************************)
EXTENDS Integers, Sequences, FiniteSets

(***************************************************************************)
(* Bounds of the model.                                                    *)
(***************************************************************************)
MaxChunkCount == 2
MaxTtl == 3
MaxTick == 3
MaxChecks == 1
MaxBytes == 11
MaxIncoming == 2
NumPeers == 2
NumDaIds == 2
MaxEntries == 3
MaxEvents == 3
MaxPhases == 2
MaxCommits == 4
MaxTxCount == 2
MaxResponse == 2
MaxTtlExcess == 2

VARIABLES
    \* ---- compact_state_machine: the vector's inputs
    chunk_count,            \* int(v["chunk_count"])
    ttl_cfg,                \* int(v.get("ttl_blocks", 3))
    initial_chunks,         \* set(as_sorted_ints(v.get("initial_chunks", [])))
    initial_commit_seen,    \* bool(v.get("initial_commit_seen", False))
    \* ---- compact_state_machine: the record
    chunks, commit_seen, state, pinned, ttl, ttl_reset_count, evicted,
    checkblock_results,
    sm_problems,            \* the problems list of the run (its length)
    \* ---- compact_state_machine: the events handled so far
    commits_handled,        \* commit events handled, counted 0, 1, "2 or more"
    ticks_handled,          \* tick events handled, counted 0, "1 or more"
    covered,                \* in-range indices carried by the chunk events handled
    last_event,             \* et of the event handled last ("none" before the first)
    tick_total,             \* blocks of the ticks handled in state A or B since the
                            \* construction or the commit handled in state A
    ticks_delivered,        \* blocks of all the ticks handled before the
                            \* eviction, counted up to twice the configured
                            \* TTL; -1 once such a tick carried a negative count
    \* ---- one run of an admission operation
    adm_v,                  \* the vector v
    adm_out,                \* what the operation computed
    \* ---- the orphan pool: static limits and the storm trigger
    per_peer_limit, per_da_id_limit, global_limit, storm_trigger_pct,
    \* ---- the orphan pool: byte counters
    peer_bytes, da_id_bytes, global_bytes,
    pool_last,              \* the last arrival and its admission decision
    \* ---- compact_eviction_tiebreak
    entries,                \* v["entries"]
    evict_order,            \* order
    ev_problems,            \* the problems list of the run (its length)
    ev_done,                \* the operation has returned
    \* ---- compact_peer_quality and compact_grace_period
    pq_v,                   \* the vector v
    pq_score,               \* score
    pq_pc,                  \* "events" in the event loop, "done" after the return
    pq_applied,             \* events applied so far
    pq_last,                \* the event applied last and the score before it
    pq_out,                 \* what the operation reports
    pq_problems,            \* the problems list of the run (its length)
    \* ---- compact_sendcmpct_modes
    sc_v,                   \* the vector v
    sc_out,                 \* what the operation computed
    \* ---- the compact-size encoders and dec_compact_size
    cs_v,                   \* the encoder, the value n and the bytes before it
    cs_enc,                 \* the encoding of n
    cs_dec,                 \* what dec_compact_size returned
    \* ---- compact_witness_roundtrip
    wr_v,                   \* the vector v
    wr_out,                 \* what the operation computed
    \* ---- compact_duplicate_commit
    dc_v,                   \* the vector v (its da_id)
    dc_target,              \* target_da_id
    dc_first,               \* first_seen_peer
    dc_dropped,             \* duplicates_dropped
    dc_penalized,           \* penalized_peers
    dc_commits,             \* the valid entries of v["commits"] handled so far
    dc_pc,                  \* "loop" in the loop over commits, "done" after the return
    dc_out,                 \* what the operation reports
    dc_problems,            \* the problems list of the run (its length)
    \* ---- a second run of compact_state_machine on the same vector
    replay,                 \* the locals of the second run, fed the same events
    \* ---- compact_prefill_roundtrip and compact_collision_fallback
    pf_v,                   \* the vector v
    pf_out,                 \* what the operation computed
    \* ---- compact_grace_period and compact_peer_quality on the same inputs
    ag_v,                   \* start_score, events, elapsed_blocks and
                            \* grace_period_blocks of the two vectors
    ag_gp,                  \* what compact_grace_period reports
    ag_pq                   \* what compact_peer_quality reports

smInputs == <<chunk_count, ttl_cfg, initial_chunks, initial_commit_seen>>
smRecord == <<chunks, commit_seen, state, pinned, ttl, ttl_reset_count, evicted,
              checkblock_results, sm_problems>>
smHistory == <<commits_handled, ticks_handled, covered, last_event, tick_total,
              ticks_delivered>>
smVars == <<smInputs, smRecord, smHistory, replay>>

admOpVars == <<adm_v, adm_out>>
poolConfig == <<per_peer_limit, per_da_id_limit, global_limit, storm_trigger_pct>>
poolVars == <<poolConfig, peer_bytes, da_id_bytes, global_bytes, pool_last>>

evVars == <<entries, evict_order, ev_problems, ev_done>>

pqVars == <<pq_v, pq_score, pq_pc, pq_applied, pq_last, pq_out, pq_problems>>

scVars == <<sc_v, sc_out>>

csVars == <<cs_v, cs_enc, cs_dec>>

wrVars == <<wr_v, wr_out>>

dcVars == <<dc_v, dc_target, dc_first, dc_dropped, dc_penalized, dc_commits,
           dc_pc, dc_out, dc_problems>>

pfVars == <<pf_v, pf_out>>

agVars == <<ag_v, ag_gp, ag_pq>>

vars == <<smVars, admOpVars, poolVars, evVars, pqVars, scVars, csVars, wrVars,
          dcVars, pfVars, agVars>>

\* The variables of the other operations, which an operation leaves alone.
nonSmVars == <<admOpVars, poolVars, evVars, pqVars, scVars, csVars, wrVars,
              dcVars, pfVars, agVars>>
nonAdmVars == <<smVars, evVars, pqVars, scVars, csVars, wrVars,
              dcVars, pfVars, agVars>>
nonEvVars == <<smVars, admOpVars, poolVars, pqVars, scVars, csVars, wrVars,
              dcVars, pfVars, agVars>>
nonPqVars == <<smVars, admOpVars, poolVars, evVars, scVars, csVars, wrVars,
              dcVars, pfVars, agVars>>
nonScVars == <<smVars, admOpVars, poolVars, evVars, pqVars, csVars, wrVars,
              dcVars, pfVars, agVars>>
nonCsVars == <<smVars, admOpVars, poolVars, evVars, pqVars, scVars, wrVars,
              dcVars, pfVars, agVars>>
nonWrVars == <<smVars, admOpVars, poolVars, evVars, pqVars, scVars, csVars,
              dcVars, pfVars, agVars>>
nonDcVars == <<smVars, admOpVars, poolVars, evVars, pqVars, scVars, csVars,
              wrVars, pfVars, agVars>>
nonPfVars == <<smVars, admOpVars, poolVars, evVars, pqVars, scVars, csVars,
              wrVars, dcVars, agVars>>
nonAgVars == <<smVars, admOpVars, poolVars, evVars, pqVars, scVars, csVars,
              wrVars, dcVars, pfVars>>

Min(a, b) == IF a <= b THEN a ELSE b

(***************************************************************************)
(* compact_state_machine                                                   *)
(***************************************************************************)
ChunkCounts == -1 .. MaxChunkCount
\* Indices an initial snapshot or a chunk event may carry: the code converts
\* with int() and checks no range, so MaxChunkCount (out of range for every
\* chunk_count of the model) and -1 (the default of a chunk event) occur.
InitialIndices == 0 .. MaxChunkCount
EventIndices == -1 .. MaxChunkCount
TickBlocks == -1 .. MaxTick

\* The code puts no upper limit on ttl: a tick of a negative block count
\* handled in state A or B raises it.  The model follows ttl up to
\* MaxTtlExcess above the configured TTL; a tick handled in state C or
\* EVICTED leaves ttl alone and is taken whatever its block count.
TtlInBounds(blocks) ==
    state \in {"A", "B"} => ttl - blocks <= ttl_cfg + MaxTtlExcess

\* the count of the blocks delivered by ticks, after a tick of blocks that
\* the record handles in state st
Delivered(total, blocks, st) ==
    IF st = "EVICTED" THEN total
    ELSE IF total < 0 \/ blocks < 0 THEN -1
    ELSE Min(total + blocks, 2 * ttl_cfg)

\* state = "C" if (commit_seen and len(chunks) == chunk_count)
\*         else ("B" if commit_seen else "A")
InitialState(cs, ch, cc) ==
    IF cs /\ Cardinality(ch) = cc THEN "C" ELSE IF cs THEN "B" ELSE "A"

SMInit ==
    /\ chunk_count \in ChunkCounts
    /\ ttl_cfg \in 0 .. MaxTtl
    /\ initial_chunks \in SUBSET InitialIndices
    /\ initial_commit_seen \in BOOLEAN
    /\ chunks = initial_chunks
    /\ commit_seen = initial_commit_seen
    /\ state = InitialState(initial_commit_seen, initial_chunks, chunk_count)
    /\ pinned = (state = "C")
    /\ ttl = IF state \in {"A", "B"} THEN ttl_cfg ELSE 0
    /\ ttl_reset_count = 0
    /\ evicted = FALSE
    /\ checkblock_results = <<>>
    /\ sm_problems = 0
    /\ commits_handled = 0
    /\ ticks_handled = 0
    /\ covered = {}
    /\ last_event = "none"
    /\ tick_total = 0
    /\ ticks_delivered = 0

\* The event loop runs while no unknown event made the operation return.
Looping == sm_problems = 0

\* Chunk without the completion check after the insertion.
ChunkNoCompletion(idx) ==
    /\ Looping
    /\ UNCHANGED nonSmVars
    /\ chunks' = IF 0 <= idx /\ idx < chunk_count /\ state # "EVICTED"
                 THEN chunks \cup {idx} ELSE chunks
    /\ covered' = IF 0 <= idx /\ idx < chunk_count
                  THEN covered \cup {idx} ELSE covered
    /\ last_event' = "chunk"
    /\ UNCHANGED <<state, pinned, commit_seen, ttl, ttl_reset_count, evicted,
                   checkblock_results, sm_problems, smInputs,
                   commits_handled, ticks_handled, tick_total,
                   ticks_delivered>>

\* Chunk without the range test on the index.
ChunkAnyIndex(idx) ==
    /\ Looping
    /\ UNCHANGED nonSmVars
    /\ chunks' = IF state # "EVICTED" THEN chunks \cup {idx} ELSE chunks
    /\ IF commit_seen /\ Cardinality(chunks') = chunk_count
       THEN state' = "C" /\ pinned' = TRUE
       ELSE UNCHANGED <<state, pinned>>
    /\ covered' = IF 0 <= idx /\ idx < chunk_count
                  THEN covered \cup {idx} ELSE covered
    /\ last_event' = "chunk"
    /\ UNCHANGED <<commit_seen, ttl, ttl_reset_count, evicted,
                   checkblock_results, sm_problems, smInputs,
                   commits_handled, ticks_handled, tick_total,
                   ticks_delivered>>

\* et == "chunk"
Chunk(idx) ==
    /\ Looping
    /\ UNCHANGED nonSmVars
    /\ chunks' = IF 0 <= idx /\ idx < chunk_count /\ state # "EVICTED"
                 THEN chunks \cup {idx} ELSE chunks
    /\ IF commit_seen /\ Cardinality(chunks') = chunk_count
       THEN state' = "C" /\ pinned' = TRUE
       ELSE UNCHANGED <<state, pinned>>
    /\ covered' = IF 0 <= idx /\ idx < chunk_count
                  THEN covered \cup {idx} ELSE covered
    /\ last_event' = "chunk"
    /\ UNCHANGED <<commit_seen, ttl, ttl_reset_count, evicted,
                   checkblock_results, sm_problems, smInputs,
                   commits_handled, ticks_handled, tick_total,
                   ticks_delivered>>

\* Commit without the guard state != "EVICTED".
CommitInEvicted ==
    /\ Looping
    /\ UNCHANGED nonSmVars
    /\ IF state = "A"
       THEN ttl' = ttl_cfg /\ ttl_reset_count' = ttl_reset_count + 1
       ELSE UNCHANGED <<ttl, ttl_reset_count>>
    /\ commit_seen' = TRUE
    /\ IF Cardinality(chunks) = chunk_count
       THEN state' = "C" /\ pinned' = TRUE
       ELSE state' = "B" /\ pinned' = FALSE
    /\ commits_handled' = Min(commits_handled + 1, 2)
    /\ last_event' = "commit"
    /\ tick_total' = IF state = "A" THEN 0 ELSE tick_total
    /\ UNCHANGED ticks_delivered
    /\ UNCHANGED <<chunks, evicted, checkblock_results, sm_problems, smInputs,
                   ticks_handled, covered>>

\* Commit counting a TTL reset at every commit it does not ignore.
CommitCountsEvery ==
    /\ Looping
    /\ UNCHANGED nonSmVars
    /\ IF state # "EVICTED"
       THEN /\ ttl' = IF state = "A" THEN ttl_cfg ELSE ttl
            /\ ttl_reset_count' = ttl_reset_count + 1
            /\ commit_seen' = TRUE
            /\ IF Cardinality(chunks) = chunk_count
               THEN state' = "C" /\ pinned' = TRUE
               ELSE state' = "B" /\ pinned' = FALSE
       ELSE UNCHANGED <<ttl, ttl_reset_count, commit_seen, state, pinned>>
    /\ commits_handled' = Min(commits_handled + 1, 2)
    /\ last_event' = "commit"
    /\ tick_total' = IF state = "A" THEN 0 ELSE tick_total
    /\ UNCHANGED ticks_delivered
    /\ UNCHANGED <<chunks, evicted, checkblock_results, sm_problems, smInputs,
                   ticks_handled, covered>>

\* et == "commit"
Commit ==
    /\ Looping
    /\ UNCHANGED nonSmVars
    /\ IF state # "EVICTED"
       THEN /\ IF state = "A"
               THEN ttl' = ttl_cfg /\ ttl_reset_count' = ttl_reset_count + 1
               ELSE UNCHANGED <<ttl, ttl_reset_count>>
            /\ commit_seen' = TRUE
            /\ IF Cardinality(chunks) = chunk_count
               THEN state' = "C" /\ pinned' = TRUE
               ELSE state' = "B" /\ pinned' = FALSE
       ELSE UNCHANGED <<ttl, ttl_reset_count, commit_seen, state, pinned>>
    /\ commits_handled' = Min(commits_handled + 1, 2)
    /\ last_event' = "commit"
    /\ tick_total' = IF state = "A" THEN 0 ELSE tick_total
    /\ UNCHANGED ticks_delivered
    /\ UNCHANGED <<chunks, evicted, checkblock_results, sm_problems, smInputs,
                   ticks_handled, covered>>

\* Tick with a timer running beside the events: up to one block more than
\* the event carries has elapsed when the tick is handled.
TickByTimer(blocks) ==
    /\ Looping
    /\ UNCHANGED nonSmVars
    /\ TtlInBounds(blocks)
    /\ \E elapsed \in {0, 1} :
          IF state \in {"A", "B"}
          THEN IF ttl - blocks - elapsed <= 0
               THEN /\ state' = "EVICTED"
                    /\ evicted' = TRUE
                    /\ commit_seen' = FALSE
                    /\ chunks' = {}
                    /\ pinned' = FALSE
                    /\ ttl' = 0
               ELSE /\ ttl' = ttl - blocks - elapsed
                    /\ UNCHANGED <<state, evicted, commit_seen, chunks, pinned>>
          ELSE UNCHANGED <<state, evicted, commit_seen, chunks, pinned, ttl>>
    /\ ticks_handled' = 1
    /\ last_event' = "tick"
    /\ tick_total' = IF state \in {"A", "B"} THEN tick_total + blocks
                     ELSE tick_total
    /\ ticks_delivered' = Delivered(ticks_delivered, blocks, state)
    /\ UNCHANGED <<ttl_reset_count, checkblock_results, sm_problems, smInputs,
                   commits_handled, covered>>

\* Tick evicting at ttl < 0 for ttl <= 0.
TickEvictsBelowZero(blocks) ==
    /\ Looping
    /\ UNCHANGED nonSmVars
    /\ TtlInBounds(blocks)
    /\ IF state \in {"A", "B"}
       THEN IF ttl - blocks < 0
            THEN /\ state' = "EVICTED"
                 /\ evicted' = TRUE
                 /\ commit_seen' = FALSE
                 /\ chunks' = {}
                 /\ pinned' = FALSE
                 /\ ttl' = 0
            ELSE /\ ttl' = ttl - blocks
                 /\ UNCHANGED <<state, evicted, commit_seen, chunks, pinned>>
       ELSE UNCHANGED <<state, evicted, commit_seen, chunks, pinned, ttl>>
    /\ ticks_handled' = 1
    /\ last_event' = "tick"
    /\ tick_total' = IF state \in {"A", "B"} THEN tick_total + blocks
                     ELSE tick_total
    /\ ticks_delivered' = Delivered(ticks_delivered, blocks, state)
    /\ UNCHANGED <<ttl_reset_count, checkblock_results, sm_problems, smInputs,
                   commits_handled, covered>>

\* et == "tick"
Tick(blocks) ==
    /\ Looping
    /\ UNCHANGED nonSmVars
    /\ TtlInBounds(blocks)
    /\ IF state \in {"A", "B"}
       THEN IF ttl - blocks <= 0
            THEN /\ state' = "EVICTED"
                 /\ evicted' = TRUE
                 /\ commit_seen' = FALSE
                 /\ chunks' = {}
                 /\ pinned' = FALSE
                 /\ ttl' = 0
            ELSE /\ ttl' = ttl - blocks
                 /\ UNCHANGED <<state, evicted, commit_seen, chunks, pinned>>
       ELSE UNCHANGED <<state, evicted, commit_seen, chunks, pinned, ttl>>
    /\ ticks_handled' = 1
    /\ last_event' = "tick"
    /\ tick_total' = IF state \in {"A", "B"} THEN tick_total + blocks
                     ELSE tick_total
    /\ ticks_delivered' = Delivered(ticks_delivered, blocks, state)
    /\ UNCHANGED <<ttl_reset_count, checkblock_results, sm_problems, smInputs,
                   commits_handled, covered>>

\* et == "checkblock"
Checkblock ==
    /\ Looping
    /\ UNCHANGED nonSmVars
    /\ Len(checkblock_results) < MaxChecks
    /\ checkblock_results' =
           Append(checkblock_results,
                  commit_seen /\ Cardinality(chunks) = chunk_count)
    /\ last_event' = "checkblock"
    /\ UNCHANGED <<chunks, commit_seen, state, pinned, ttl, ttl_reset_count,
                   evicted, sm_problems, smInputs,
                   commits_handled, ticks_handled, covered, tick_total,
                   ticks_delivered>>

\* any other event type: a problem is reported and the operation returns
UnknownEvent ==
    /\ Looping
    /\ UNCHANGED nonSmVars
    /\ sm_problems' = sm_problems + 1
    /\ last_event' = "unknown"
    /\ UNCHANGED <<chunks, commit_seen, state, pinned, ttl, ttl_reset_count,
                   evicted, checkblock_results, smInputs,
                   commits_handled, ticks_handled, covered, tick_total,
                   ticks_delivered>>

\* One run of the event loop; no second run is kept.
SMNext ==
    \/ \E idx \in EventIndices : Chunk(idx) /\ UNCHANGED replay
    \/ Commit /\ UNCHANGED replay
    \/ \E blocks \in TickBlocks : Tick(blocks) /\ UNCHANGED replay
    \/ Checkblock /\ UNCHANGED replay
    \/ UnknownEvent /\ UNCHANGED replay

(***************************************************************************)
(* Two runs of compact_state_machine on the same vector: each event of the *)
(* list is handled by the first run (the actions above) and by the second  *)
(* run, whose locals are the record replay.  Replayed is the body of the   *)
(* event loop as a function of the locals and the event.                   *)
(***************************************************************************)
\* the locals after the construction (lines 410-417)
ReplayStart(cc, tcfg, ic, cs) ==
    LET st == InitialState(cs, ic, cc) IN
    [chunks |-> ic, commit_seen |-> cs, state |-> st, pinned |-> (st = "C"),
     ttl |-> IF st \in {"A", "B"} THEN tcfg ELSE 0, ttl_reset_count |-> 0,
     evicted |-> FALSE, checkblock_results |-> <<>>, problems |-> 0]

\* the locals r after the event of type et with the index or block count arg
Replayed(r, et, arg) ==
    LET complete(ch) == Cardinality(ch) = chunk_count IN
    CASE et = "chunk" ->
           LET ch == IF 0 <= arg /\ arg < chunk_count /\ r.state # "EVICTED"
                     THEN r.chunks \cup {arg} ELSE r.chunks
           IN  IF r.commit_seen /\ complete(ch)
               THEN [r EXCEPT !.chunks = ch, !.state = "C", !.pinned = TRUE]
               ELSE [r EXCEPT !.chunks = ch]
      [] et = "commit" ->
           IF r.state = "EVICTED" THEN r
           ELSE [r EXCEPT !.ttl = IF r.state = "A" THEN ttl_cfg ELSE @,
                          !.ttl_reset_count = IF r.state = "A" THEN @ + 1 ELSE @,
                          !.commit_seen = TRUE,
                          !.state = IF complete(r.chunks) THEN "C" ELSE "B",
                          !.pinned = complete(r.chunks)]
      [] et = "tick" ->
           IF r.state \notin {"A", "B"} THEN r
           ELSE IF r.ttl - arg <= 0
                THEN [r EXCEPT !.state = "EVICTED", !.evicted = TRUE,
                               !.commit_seen = FALSE, !.chunks = {},
                               !.pinned = FALSE, !.ttl = 0]
                ELSE [r EXCEPT !.ttl = @ - arg]
      [] et = "checkblock" ->
           [r EXCEPT !.checkblock_results =
                         Append(@, r.commit_seen /\ complete(r.chunks))]
      [] OTHER -> [r EXCEPT !.problems = @ + 1]

\* One event of the list, handled by both runs.
NextReplay ==
    \/ \E idx \in EventIndices :
           Chunk(idx) /\ replay' = Replayed(replay, "chunk", idx)
    \/ Commit /\ replay' = Replayed(replay, "commit", 0)
    \/ \E blocks \in TickBlocks :
           Tick(blocks) /\ replay' = Replayed(replay, "tick", blocks)
    \/ Checkblock /\ replay' = Replayed(replay, "checkblock", 0)
    \/ UnknownEvent /\ replay' = Replayed(replay, "unknown", 0)

(***************************************************************************)
(* Admission control: compact_orphan_limits, compact_orphan_storm and      *)
(* compact_storm_commit_bearing.  Percentages are floats in the code; the  *)
(* model keeps them as exact fractions <<numerator, denominator>> with a   *)
(* positive denominator, which is what the float operations compute on the *)
(* values of the model (100.0 * current / limit is correctly rounded and   *)
(* the triggers are representable, so > decides as on the exact values).   *)
(***************************************************************************)
ByteCounts == 0 .. MaxBytes
\* current_global_bytes of compact_orphan_storm: also 90 and 95 of 100
StormByteCounts == ByteCounts \cup {90, 95}
IncomingBytes == 0 .. MaxIncoming
PerPeerLimits == {3}
PerDaIdLimits == {4}
GlobalLimits == {-1, 0, 4, 10}
\* global_limit of compact_orphan_storm
StormGlobalLimits == GlobalLimits \cup {100}
\* storm_trigger_pct: 90.0 (the default), 50.0, 12.5 and -1.0
StormTriggers == {<<90, 1>>, <<50, 1>>, <<25, 2>>, <<-1, 1>>}
\* recovery_success_rate and observation_minutes on both sides of 95.0 and 10
RecoveryRates == {<<94, 1>>, <<95, 1>>}
ObservationMinutes == {9, 10}
\* orphan_pool_fill_pct: 0.0, 12.5, 50.0, 89.5, 90.0, 90.5, 100.0
FillPcts == {<<0, 1>>, <<25, 2>>, <<50, 1>>, <<179, 2>>, <<90, 1>>, <<181, 2>>,
             <<100, 1>>}

\* a > b on floats
FloatGreater(a, b) == a[1] * b[2] > b[1] * a[2]
\* a < b on floats
FloatLess(a, b) == a[1] * b[2] < b[1] * a[2]

\* admit of compact_orphan_limits without the per-peer test.
OrphanLimitsAdmitNoPeer(current_peer, current_da_id, current_global, incoming, peer_limit, da_id_limit, glob_limit) ==
    /\ current_da_id + incoming <= da_id_limit
    /\ current_global + incoming <= glob_limit

\* admit of compact_orphan_limits with strict comparisons.
OrphanLimitsAdmitStrict(current_peer, current_da_id, current_global, incoming, peer_limit, da_id_limit, glob_limit) ==
    /\ current_peer + incoming < peer_limit
    /\ current_da_id + incoming < da_id_limit
    /\ current_global + incoming < glob_limit

\* admit of compact_orphan_limits
OrphanLimitsAdmit(current_peer, current_da_id, current_global, incoming, peer_limit, da_id_limit, glob_limit) ==
    /\ current_peer + incoming <= peer_limit
    /\ current_da_id + incoming <= da_id_limit
    /\ current_global + incoming <= glob_limit

\* fill_pct = 0.0 if global_limit <= 0 else (100.0 * current_global / global_limit)
FillPct(current_global, glob_limit) ==
    IF glob_limit <= 0 THEN <<0, 1>> ELSE <<100 * current_global, glob_limit>>

\* storm_mode with >= for >.
StormModeAtTrigger(fill_pct, trigger_pct) == ~FloatLess(fill_pct, trigger_pct)

\* storm_mode = fill_pct > storm_trigger_pct
StormMode(fill_pct, trigger_pct) == FloatGreater(fill_pct, trigger_pct)

\* admit of compact_orphan_storm without the storm rule.
OrphanStormAdmitNoStormRule(current_global, incoming_chunk, incoming_has_commit, glob_limit, trigger_pct) ==
    current_global + incoming_chunk <= glob_limit

\* admit of compact_orphan_storm:
\*   admit = current_global + incoming_chunk <= global_limit
\*   if storm_mode and not incoming_has_commit: admit = False
OrphanStormAdmit(current_global, incoming_chunk, incoming_has_commit, glob_limit, trigger_pct) ==
    IF StormMode(FillPct(current_global, glob_limit), trigger_pct)
       /\ ~incoming_has_commit
    THEN FALSE
    ELSE current_global + incoming_chunk <= glob_limit

\* rollback = recovery_success_rate < 95.0 and observation_minutes >= 10
Rollback(recovery_success_rate, observation_minutes) ==
    FloatLess(recovery_success_rate, <<95, 1>>) /\ observation_minutes >= 10

NoResult == [done |-> FALSE]

\* The vectors of the three operations.
OrphanLimitsVectors ==
    [op : {"compact_orphan_limits"},
     per_peer_limit : PerPeerLimits,
     per_da_id_limit : PerDaIdLimits,
     global_limit : GlobalLimits \ {-1, 0},
     current_peer_bytes : ByteCounts,
     current_da_id_bytes : ByteCounts,
     current_global_bytes : ByteCounts,
     incoming_chunk_bytes : IncomingBytes]

OrphanStormVectors ==
    [op : {"compact_orphan_storm"},
     global_limit : StormGlobalLimits,
     current_global_bytes : StormByteCounts,
     incoming_chunk_bytes : IncomingBytes,
     incoming_has_commit : BOOLEAN,
     storm_trigger_pct : StormTriggers,
     recovery_success_rate : RecoveryRates,
     observation_minutes : ObservationMinutes]

StormCommitBearingVectors ==
    [op : {"compact_storm_commit_bearing"},
     contains_commit : BOOLEAN,
     contains_chunk_for_known_commit : BOOLEAN,
     contains_block_with_commit : BOOLEAN,
     orphan_pool_fill_pct : FillPcts,
     storm_trigger_pct : StormTriggers]

AdmOpsInit ==
    /\ adm_v \in OrphanLimitsVectors \cup OrphanStormVectors
                   \cup StormCommitBearingVectors
    /\ adm_out = NoResult

\* op == "compact_orphan_limits"
RunOrphanLimits ==
    /\ adm_v.op = "compact_orphan_limits"
    /\ ~adm_out.done
    /\ adm_out' =
           [done |-> TRUE,
            admit |-> OrphanLimitsAdmit(adm_v.current_peer_bytes,
                                        adm_v.current_da_id_bytes,
                                        adm_v.current_global_bytes,
                                        adm_v.incoming_chunk_bytes,
                                        adm_v.per_peer_limit,
                                        adm_v.per_da_id_limit,
                                        adm_v.global_limit)]
    /\ UNCHANGED <<adm_v, poolVars, nonAdmVars>>

\* op == "compact_orphan_storm"
RunOrphanStorm ==
    /\ adm_v.op = "compact_orphan_storm"
    /\ ~adm_out.done
    /\ adm_out' =
           [done |-> TRUE,
            fill_pct |-> FillPct(adm_v.current_global_bytes, adm_v.global_limit),
            storm_mode |-> StormMode(FillPct(adm_v.current_global_bytes,
                                             adm_v.global_limit),
                                     adm_v.storm_trigger_pct),
            rollback |-> Rollback(adm_v.recovery_success_rate,
                                  adm_v.observation_minutes),
            admit |-> OrphanStormAdmit(adm_v.current_global_bytes,
                                       adm_v.incoming_chunk_bytes,
                                       adm_v.incoming_has_commit,
                                       adm_v.global_limit,
                                       adm_v.storm_trigger_pct)]
    /\ UNCHANGED <<adm_v, poolVars, nonAdmVars>>

\* admit of compact_storm_commit_bearing, admitting whatever is offered.
CommitBearingAdmitAlways(storm_mode, commit_bearing) == TRUE

\* admit of compact_storm_commit_bearing:
\*   admit = True; if storm_mode and not commit_bearing: admit = False
CommitBearingAdmit(storm_mode, commit_bearing) ==
    IF storm_mode /\ ~commit_bearing THEN FALSE ELSE TRUE

\* op == "compact_storm_commit_bearing"
RunStormCommitBearing ==
    /\ adm_v.op = "compact_storm_commit_bearing"
    /\ ~adm_out.done
    /\ LET commit_bearing == adm_v.contains_commit
                                \/ adm_v.contains_chunk_for_known_commit
                                \/ adm_v.contains_block_with_commit
           storm_mode == StormMode(adm_v.orphan_pool_fill_pct,
                                   adm_v.storm_trigger_pct)
       IN adm_out' =
              [done |-> TRUE,
               commit_bearing |-> commit_bearing,
               storm_mode |-> storm_mode,
               prioritize |-> (~storm_mode) \/ commit_bearing,
               admit |-> CommitBearingAdmit(storm_mode, commit_bearing)]
    /\ UNCHANGED <<adm_v, poolVars, nonAdmVars>>

AdmOpsNext ==
    \/ RunOrphanLimits
    \/ RunOrphanStorm
    \/ RunStormCommitBearing

(***************************************************************************)
(* The orphan pool that calls the admission decisions (section 4.2 of the  *)
(* specification): it keeps one byte counter per peer, one per payload and *)
(* a global one, asks compact_orphan_limits and compact_orphan_storm about *)
(* every arriving item and adds the item's bytes to the three counters     *)
(* only when it is admitted.                                               *)
(***************************************************************************)
Peers == 1 .. NumPeers
DaIds == 1 .. NumDaIds
\* Bytes the pool already holds for other peers when the run starts.
StartGlobalBytes == {0, 7}

PoolInit ==
    /\ per_peer_limit \in PerPeerLimits
    /\ per_da_id_limit \in PerDaIdLimits
    /\ global_limit \in GlobalLimits \ {-1}
    /\ storm_trigger_pct \in StormTriggers
    /\ peer_bytes = [p \in Peers |-> 0]
    /\ da_id_bytes = [d \in DaIds |-> 0]
    /\ global_bytes \in {g \in StartGlobalBytes : g <= global_limit}
    /\ pool_last = [admit |-> FALSE, incoming |-> 0, has_commit |-> FALSE,
                    arrivals |-> 0]

Arrive(p, d, incoming, has_commit) ==
    /\ LET admit ==
               /\ OrphanLimitsAdmit(peer_bytes[p], da_id_bytes[d], global_bytes,
                                    incoming, per_peer_limit, per_da_id_limit,
                                    global_limit)
               /\ OrphanStormAdmit(global_bytes, incoming, has_commit,
                                   global_limit, storm_trigger_pct)
       IN /\ IF admit
             THEN /\ peer_bytes' = [peer_bytes EXCEPT ![p] = @ + incoming]
                  /\ da_id_bytes' = [da_id_bytes EXCEPT ![d] = @ + incoming]
                  /\ global_bytes' = global_bytes + incoming
             ELSE UNCHANGED <<peer_bytes, da_id_bytes, global_bytes>>
          /\ pool_last' = [admit |-> admit, incoming |-> incoming,
                           has_commit |-> has_commit,
                           arrivals |-> Min(pool_last.arrivals + 1, 2)]
    /\ UNCHANGED <<poolConfig, admOpVars, nonAdmVars>>

PoolNext ==
    \E p \in Peers, d \in DaIds, incoming \in IncomingBytes,
       has_commit \in BOOLEAN :
        Arrive(p, d, incoming, has_commit)

(***************************************************************************)
(* compact_eviction_tiebreak.  A da_id is a string, modelled as the        *)
(* sequence of its code points; Fraction(fee, wire_bytes) is the pair      *)
(* <<numerator, denominator>> in lowest terms.                             *)
(***************************************************************************)
\* "a", "ab", "b" and the empty string
DaIdStrings == {<<1>>, <<1, 2>>, <<2>>}
EmptyString == <<>>
\* (fee, wire_bytes): 5 per 100, 10 per 100 and 10 per 200 (the density of
\* 5 per 100 under another name)
FeeAndWireBytes == {<<5, 100>>, <<10, 100>>, <<10, 200>>}
ValidEntries ==
    {[da_id |-> id, fee |-> fw[1], wire_bytes |-> fw[2], received_time |-> t] :
        id \in DaIdStrings, fw \in FeeAndWireBytes, t \in {0, 1}}
InvalidEntries ==
    {[da_id |-> EmptyString, fee |-> 5, wire_bytes |-> 100, received_time |-> 0],
     [da_id |-> <<1>>, fee |-> 5, wire_bytes |-> 0, received_time |-> 0]}
EntryLists ==
    UNION {[1 .. n -> ValidEntries \cup InvalidEntries] : n \in 0 .. MaxEntries}

RECURSIVE GCD(_, _)
GCD(a, b) == IF b = 0 THEN a ELSE GCD(b, a % b)

\* Fraction(fee, wire_bytes), wire_bytes > 0
Fraction(n, d) ==
    LET g == GCD(IF n < 0 THEN -n ELSE n, d) IN <<n \div g, d \div g>>

\* Fraction.__lt__: a.numerator * b.denominator < b.numerator * a.denominator
FractionLess(a, b) == a[1] * b[2] < b[1] * a[2]

\* str.__lt__: the first differing code point decides, a proper prefix is less
RECURSIVE StrLess(_, _)
StrLess(a, b) ==
    IF b = <<>> THEN FALSE
    ELSE IF a = <<>> THEN TRUE
    ELSE IF a[1] # b[1] THEN a[1] < b[1]
    ELSE StrLess(Tail(a), Tail(b))

\* normalized.append((da_id, Fraction(fee, wire_bytes), received_time))
Normalized(es) ==
    [i \in 1 .. Len(es) |->
        <<es[i].da_id, Fraction(es[i].fee, es[i].wire_bytes), es[i].received_time>>]

\* The key order without the da_id tie-break.
KeyLessNoDaId(x, y) ==
    IF x[2] # y[2] THEN FractionLess(x[2], y[2])
    ELSE x[3] < y[3]

\* The key order with the density truncated to an integer (fee // wire_bytes)
\* instead of compared exactly.
KeyLessTruncated(x, y) ==
    LET dx == x[2][1] \div x[2][2]
        dy == y[2][1] \div y[2][2]
    IN IF dx # dy THEN dx < dy
       ELSE IF x[3] # y[3] THEN x[3] < y[3]
       ELSE StrLess(x[1], y[1])

\* key=lambda x: (x[1], x[2], x[0]), compared as tuples: the first component
\* that differs decides
KeyLess(x, y) ==
    IF x[2] # y[2] THEN FractionLess(x[2], y[2])
    ELSE IF x[3] # y[3] THEN x[3] < y[3]
    ELSE StrLess(x[1], y[1])

\* sorted() is stable: x goes before the first element that is greater
InsertSorted(s, x) ==
    LET later == {i \in 1 .. Len(s) : KeyLess(x, s[i])}
        at == IF later = {} THEN Len(s) + 1
              ELSE CHOOSE i \in later : \A j \in later : i <= j
    IN SubSeq(s, 1, at - 1) \o <<x>> \o SubSeq(s, at, Len(s))

RECURSIVE SortedByKey(_)
SortedByKey(s) ==
    IF s = <<>> THEN <<>>
    ELSE InsertSorted(SortedByKey(SubSeq(s, 1, Len(s) - 1)), s[Len(s)])

\* order = [x[0] for x in sorted(normalized, key=...)]
EvictOrder(es) ==
    LET sorted == SortedByKey(Normalized(es))
    IN [i \in 1 .. Len(sorted) |-> sorted[i][1]]

EvInit ==
    /\ entries \in EntryLists
    /\ evict_order = <<>>
    /\ ev_problems = 0
    /\ ev_done = FALSE

\* op == "compact_eviction_tiebreak"
EvictionTiebreak ==
    /\ ~ev_done
    /\ ev_done' = TRUE
    /\ IF Len(entries) = 0
       THEN ev_problems' = 1 /\ UNCHANGED evict_order
       ELSE IF \E i \in 1 .. Len(entries) :
                   entries[i].da_id = EmptyString \/ entries[i].wire_bytes <= 0
       THEN ev_problems' = 1 /\ UNCHANGED evict_order
       ELSE evict_order' = EvictOrder(entries) /\ UNCHANGED ev_problems
    /\ UNCHANGED <<entries, nonEvVars>>

EvNext == EvictionTiebreak

(***************************************************************************)
(* compact_peer_quality and compact_grace_period: the peer-quality score   *)
(* under a list of events.  One step of the model is one iteration of the  *)
(* event loop; the last step is everything from the end of the loop to the *)
(* return.                                                                 *)
(***************************************************************************)
QualityEvents ==
    {"reconstruct_no_getblocktxn", "getblocktxn_first_try", "prefetch_completed",
     "incomplete_set", "getblocktxn_required", "full_block_required",
     "prefetch_cap_exceeded"}

\* deltas = {...}
deltas ==
    [ev \in QualityEvents |->
        CASE ev = "reconstruct_no_getblocktxn" -> 2
          [] ev = "getblocktxn_first_try" -> 1
          [] ev = "prefetch_completed" -> 1
          [] ev = "incomplete_set" -> -5
          [] ev = "getblocktxn_required" -> -3
          [] ev = "full_block_required" -> -10
          [] ev = "prefetch_cap_exceeded" -> -2]

\* Halving with floor division (delta // 2).
HalvedFloor(delta) == delta \div 2

\* int(delta / 2): the quotient truncated toward zero
Halved(delta) == IF delta >= 0 THEN delta \div 2 ELSE -((-delta) \div 2)

\* max(0, min(100, x))
Clamped(x) == IF x > 100 THEN 100 ELSE IF x < 0 THEN 0 ELSE x

\* if grace and delta < 0: delta = int(delta / 2)
EffectiveDelta(ev, grace) ==
    IF grace /\ deltas[ev] < 0 THEN Halved(deltas[ev]) ELSE deltas[ev]

\* score = max(0, min(100, score + delta))
AfterEvent(score, ev, grace) == Clamped(score + EffectiveDelta(ev, grace))

\* Decay of one point per interval that does not stop at 50.
DecayedPastBaseline(score, intervals) ==
    IF intervals <= 0 THEN score
    ELSE IF score > 50 THEN score - intervals
    ELSE IF score < 50 THEN score + intervals
    ELSE score

\* for _ in range(elapsed_blocks // 144): one point toward 50 per iteration
RECURSIVE Decayed(_, _)
Decayed(score, intervals) ==
    IF intervals <= 0 THEN score
    ELSE Decayed(IF score > 50 THEN score - 1
                 ELSE IF score < 50 THEN score + 1 ELSE score,
                 intervals - 1)

\* mode = 2 if score >= 75, 1 if score >= 40, else 0
ModeOfScore(score) == IF score >= 75 THEN 2 ELSE IF score >= 40 THEN 1 ELSE 0

\* grace of compact_peer_quality, grace_active of compact_grace_period
GraceOf(v) ==
    IF v.op = "compact_peer_quality" THEN v.grace_period_active
    ELSE v.elapsed_blocks < v.grace_period_blocks

\* start_score is converted with int() and not range-checked.
StartScores == {-1, 0, 2, 4, 5, 7, 39, 41, 48, 50, 52, 74, 76, 98, 100, 101}
ElapsedBlocks == {-144, 0, 143, 144, 300, 1439, 1440}
GracePeriodBlocks == {0, 1440}

PeerQualityVectors ==
    [op : {"compact_peer_quality"}, start_score : StartScores,
     grace_period_active : BOOLEAN, elapsed_blocks : ElapsedBlocks]

GracePeriodVectors ==
    [op : {"compact_grace_period"}, start_score : StartScores,
     grace_period_blocks : GracePeriodBlocks, elapsed_blocks : ElapsedBlocks]

NoEvent == [ev |-> "none", before |-> 0]

PqInit ==
    /\ pq_v \in PeerQualityVectors \cup GracePeriodVectors
    /\ pq_score = pq_v.start_score
    /\ pq_pc = "events"
    /\ pq_applied = 0
    /\ pq_last = NoEvent
    /\ pq_out = NoResult
    /\ pq_problems = 0

\* one iteration of the loop over events, for an event deltas knows
ApplyEvent(ev) ==
    /\ pq_pc = "events"
    /\ pq_applied < MaxEvents
    /\ UNCHANGED nonPqVars
    /\ pq_score' = AfterEvent(pq_score, ev, GraceOf(pq_v))
    /\ pq_last' = [ev |-> ev, before |-> pq_score]
    /\ pq_applied' = pq_applied + 1
    /\ UNCHANGED <<pq_v, pq_pc, pq_out, pq_problems>>

\* if ev not in deltas: a problem is reported and the operation returns
UnknownQualityEvent ==
    /\ pq_pc = "events"
    /\ UNCHANGED nonPqVars
    /\ pq_problems' = pq_problems + 1
    /\ pq_pc' = "done"
    /\ UNCHANGED <<pq_v, pq_score, pq_applied, pq_last, pq_out>>

\* compact_peer_quality after the loop: baseline decay, mode, the report
FinishPeerQuality ==
    /\ pq_pc = "events"
    /\ pq_v.op = "compact_peer_quality"
    /\ UNCHANGED nonPqVars
    /\ pq_score' = Decayed(pq_score, pq_v.elapsed_blocks \div 144)
    /\ pq_out' = [done |-> TRUE, score |-> pq_score',
                  mode |-> ModeOfScore(pq_score')]
    /\ pq_pc' = "done"
    /\ UNCHANGED <<pq_v, pq_applied, pq_last, pq_problems>>

\* compact_grace_period after the loop, with disconnect = score < 5.
FinishGracePeriodIgnoringGrace ==
    /\ pq_pc = "events"
    /\ pq_v.op = "compact_grace_period"
    /\ UNCHANGED nonPqVars
    /\ pq_out' = [done |-> TRUE, score |-> pq_score,
                  grace_active |-> GraceOf(pq_v),
                  disconnect |-> pq_score < 5]
    /\ pq_pc' = "done"
    /\ UNCHANGED <<pq_v, pq_score, pq_applied, pq_last, pq_problems>>

\* compact_grace_period after the loop: disconnect, the report
FinishGracePeriod ==
    /\ pq_pc = "events"
    /\ pq_v.op = "compact_grace_period"
    /\ UNCHANGED nonPqVars
    /\ pq_out' = [done |-> TRUE, score |-> pq_score,
                  grace_active |-> GraceOf(pq_v),
                  disconnect |-> (pq_score < 5) /\ ~GraceOf(pq_v)]
    /\ pq_pc' = "done"
    /\ UNCHANGED <<pq_v, pq_score, pq_applied, pq_last, pq_problems>>

PqNext ==
    \/ \E ev \in QualityEvents : ApplyEvent(ev)
    \/ UnknownQualityEvent
    \/ FinishPeerQuality
    \/ FinishGracePeriod

(***************************************************************************)
(* compact_sendcmpct_modes: the relay mode of each phase.  miss_rate_pct   *)
(* is a float in the code and an exact fraction in the model.              *)
(***************************************************************************)
MissRatePcts == {<<0, 1>>, <<1, 2>>, <<3, 5>>, <<10, 1>>, <<101, 10>>}
MissRateBlocks == {0, 4, 5}

\* A phase, or a vector without phases; a phase that is no object counts as
\* {}, which is the payload of the defaults (false, false, 0.0, 0).
Payloads ==
    [in_ibd : BOOLEAN, warmup_done : BOOLEAN, miss_rate_pct : MissRatePcts,
     miss_rate_blocks : MissRateBlocks]

\* compute_mode with miss_blocks > 5 for miss_blocks >= 5.
compute_mode_blocks_strict(payload) ==
    IF payload.in_ibd THEN 0
    ELSE IF FloatGreater(payload.miss_rate_pct, <<10, 1>>)
            /\ payload.miss_rate_blocks > 5 THEN 0
    ELSE IF payload.warmup_done
            /\ ~FloatGreater(payload.miss_rate_pct, <<1, 2>>) THEN 2
    ELSE IF payload.warmup_done THEN 1
    ELSE 0

\* def compute_mode(payload)
compute_mode(payload) ==
    IF payload.in_ibd THEN 0
    ELSE IF FloatGreater(payload.miss_rate_pct, <<10, 1>>)
            /\ payload.miss_rate_blocks >= 5 THEN 0
    ELSE IF payload.warmup_done
            /\ ~FloatGreater(payload.miss_rate_pct, <<1, 2>>) THEN 2
    ELSE IF payload.warmup_done THEN 1
    ELSE 0

PhaseLists == UNION {[1 .. n -> Payloads] : n \in 0 .. MaxPhases}

SendcmpctVectors ==
    [has_phases : {TRUE}, phases : PhaseLists]
        \cup [has_phases : {FALSE}, payload : Payloads]

ScInit ==
    /\ sc_v \in SendcmpctVectors
    /\ sc_out = NoResult

RunSendcmpctModes ==
    /\ ~sc_out.done
    /\ sc_out' =
           IF sc_v.has_phases
           THEN [done |-> TRUE,
                 modes |-> [i \in 1 .. Len(sc_v.phases) |->
                               compute_mode(sc_v.phases[i])]]
           ELSE [done |-> TRUE, mode |-> compute_mode(sc_v.payload)]
    /\ UNCHANGED <<sc_v, nonScVars>>

ScNext == RunSendcmpctModes

(***************************************************************************)
(* Compact-size: enc_compact_size and dec_compact_size of                  *)
(* compact_witness_roundtrip, encode_compact_size of run_cv_common.py and  *)
(* compact_size of build_genesis_v1_1.py.  A Python int of [0, 2^64) is    *)
(* kept as its eight base-256 digits, least significant first, because the *)
(* values of the upper length classes are beyond the 32-bit integers of   *)
(* TLC; shifts, masks, comparisons and to_bytes work on the digits.        *)
(***************************************************************************)
\* the int n < 2^31 as eight digits
U64(n) ==
    <<n % 256, (n \div 256) % 256, (n \div 65536) % 256,
      (n \div 16777216) % 256, 0, 0, 0, 0>>

\* the eight digits as an int, for a value below 2^31
IntOf(n) == n[1] + 256 * n[2] + 65536 * n[3] + 16777216 * n[4]

\* (n >> (8 * i)) & 0xFF
ShiftMask(n, i) == n[i + 1]

\* n < m
IntLess(n, m) ==
    \E i \in 1 .. 8 : n[i] < m[i] /\ \A j \in (i + 1) .. 8 : n[j] = m[j]

\* n <= m
IntLessEq(n, m) == n = m \/ IntLess(n, m)

\* n.to_bytes(k, "little") for an n that fits in k bytes
ToBytesLittle(n, k) == [i \in 1 .. k |-> n[i]]

\* b[0] | (b[1] << 8) | ... | (b[k-1] << (8 * (k - 1)))
OrShifted(b) == [i \in 1 .. 8 |-> IF i <= Len(b) THEN b[i] ELSE 0]

Hex_FD == <<253, 0, 0, 0, 0, 0, 0, 0>>
Hex_FFFF == <<255, 255, 0, 0, 0, 0, 0, 0>>
Hex_FFFFFFFF == <<255, 255, 255, 255, 0, 0, 0, 0>>

\* enc_compact_size writing the two bytes of the 0xFD class high byte first.
enc_compact_size_big_endian(n) ==
    IF IntLess(n, Hex_FD) THEN <<ShiftMask(n, 0)>>
    ELSE IF IntLessEq(n, Hex_FFFF)
    THEN <<253, ShiftMask(n, 1), ShiftMask(n, 0)>>
    ELSE IF IntLessEq(n, Hex_FFFFFFFF)
    THEN <<254, ShiftMask(n, 0), ShiftMask(n, 1), ShiftMask(n, 2),
           ShiftMask(n, 3)>>
    ELSE <<255>> \o [i \in 1 .. 8 |-> ShiftMask(n, i - 1)]

\* def enc_compact_size(n), run_cv_bundle.py
enc_compact_size(n) ==
    IF IntLess(n, Hex_FD) THEN <<ShiftMask(n, 0)>>
    ELSE IF IntLessEq(n, Hex_FFFF)
    THEN <<253, ShiftMask(n, 0), ShiftMask(n, 1)>>
    ELSE IF IntLessEq(n, Hex_FFFFFFFF)
    THEN <<254, ShiftMask(n, 0), ShiftMask(n, 1), ShiftMask(n, 2),
           ShiftMask(n, 3)>>
    ELSE <<255>> \o [i \in 1 .. 8 |-> ShiftMask(n, i - 1)]

\* def encode_compact_size(v), run_cv_common.py
encode_compact_size(v) ==
    IF IntLess(v, Hex_FD) THEN <<ShiftMask(v, 0)>>
    ELSE IF IntLessEq(v, Hex_FFFF) THEN <<253>> \o ToBytesLittle(v, 2)
    ELSE IF IntLessEq(v, Hex_FFFFFFFF) THEN <<254>> \o ToBytesLittle(v, 4)
    ELSE <<255>> \o ToBytesLittle(v, 8)

\* def compact_size(n), build_genesis_v1_1.py; the two ValueError branches
\* (n < 0, n > 0xFFFFFFFFFFFFFFFF) are outside the eight digits
compact_size(n) ==
    IF IntLess(n, Hex_FD) THEN <<ShiftMask(n, 0)>>
    ELSE IF IntLessEq(n, Hex_FFFF) THEN <<253>> \o ToBytesLittle(n, 2)
    ELSE IF IntLessEq(n, Hex_FFFFFFFF) THEN <<254>> \o ToBytesLittle(n, 4)
    ELSE <<255>> \o ToBytesLittle(n, 8)

\* dec_compact_size advancing the offset of the 0xFD class by 2 for 3.
dec_compact_size_short(buf, o) ==
    LET pfx == buf[o + 1]
    IN IF pfx < 253 THEN <<OrShifted(<<pfx>>), o + 1>>
       ELSE IF pfx = 253
       THEN <<OrShifted(<<buf[o + 2], buf[o + 3]>>), o + 2>>
       ELSE IF pfx = 254
       THEN <<OrShifted(<<buf[o + 2], buf[o + 3], buf[o + 4], buf[o + 5]>>),
              o + 5>>
       ELSE <<OrShifted([i \in 1 .. 8 |-> buf[o + 1 + i]]), o + 9>>

\* def dec_compact_size(buf, o); buf[o] of the code is buf[o + 1] here
dec_compact_size(buf, o) ==
    LET pfx == buf[o + 1]
    IN IF pfx < 253 THEN <<OrShifted(<<pfx>>), o + 1>>
       ELSE IF pfx = 253
       THEN <<OrShifted(<<buf[o + 2], buf[o + 3]>>), o + 3>>
       ELSE IF pfx = 254
       THEN <<OrShifted(<<buf[o + 2], buf[o + 3], buf[o + 4], buf[o + 5]>>),
              o + 5>>
       ELSE <<OrShifted([i \in 1 .. 8 |-> buf[o + 1 + i]]), o + 9>>

CompactSizeEncoders == {"enc_compact_size", "encode_compact_size", "compact_size"}

Encoded(impl, n) ==
    CASE impl = "enc_compact_size" -> enc_compact_size(n)
      [] impl = "encode_compact_size" -> encode_compact_size(n)
      [] impl = "compact_size" -> compact_size(n)

\* Values on both sides of every class boundary, 2^64 - 1, and values whose
\* digits all differ.
CompactSizeValues ==
    {U64(0), U64(1), U64(252), U64(253), U64(254), U64(255), U64(256),
     U64(513), U64(65535), U64(65536), U64(66051), U64(16909060),
     <<255, 255, 255, 127, 0, 0, 0, 0>>, <<0, 0, 0, 128, 0, 0, 0, 0>>,
     Hex_FFFFFFFF, <<0, 0, 0, 0, 1, 0, 0, 0>>, <<8, 7, 6, 5, 4, 3, 2, 1>>,
     <<0, 0, 0, 0, 0, 0, 0, 128>>, <<255, 255, 255, 255, 255, 255, 255, 255>>}

\* Bytes that stand in the buffer before the encoding.
LeadingBytes == {<<>>, <<1>>, <<253, 255>>}

CsInit ==
    /\ cs_v \in [impl : CompactSizeEncoders, n : CompactSizeValues,
                 lead : LeadingBytes]
    /\ cs_enc = NoResult
    /\ cs_dec = NoResult

EncodeCompactSize ==
    /\ ~cs_enc.done
    /\ cs_enc' = [done |-> TRUE, bytes |-> Encoded(cs_v.impl, cs_v.n)]
    /\ UNCHANGED <<cs_v, cs_dec, nonCsVars>>

DecodeCompactSize ==
    /\ cs_enc.done
    /\ ~cs_dec.done
    /\ LET r == dec_compact_size(cs_v.lead \o cs_enc.bytes, Len(cs_v.lead))
       IN cs_dec' = [done |-> TRUE, n |-> r[1], off |-> r[2]]
    /\ UNCHANGED <<cs_v, cs_enc, nonCsVars>>

CsNext == EncodeCompactSize \/ DecodeCompactSize

(***************************************************************************)
(* compact_witness_roundtrip: the witness wire form is built and decoded   *)
(* at once.  Lengths here are below 2^31; the compact-size functions take  *)
(* and return them as base-256 digits.                                     *)
(***************************************************************************)
SuiteIds == {-1, 0, 1, 255, 256}
\* pubkey_length and sig_length; a negative length makes bytes([n]) raise
WitnessLengths == {0, 1, 252, 253, 300, 65535, 65536}

WitnessVectors ==
    [suite_id : SuiteIds, pubkey_length : WitnessLengths,
     sig_length : WitnessLengths]

\* bytes([b]) * n
Repeated(b, n) == [i \in 1 .. n |-> b]

\* buf[a : b] for 0 <= a <= b
Slice(buf, a, b) == SubSeq(buf, a + 1, Min(b, Len(buf)))

\* wire, as built by the five append/extend calls
WitnessWire(suite_id, pub_len, sig_len) ==
    <<suite_id % 256>> \o enc_compact_size(U64(pub_len))
        \o Repeated(17, pub_len)
        \o enc_compact_size(U64(sig_len)) \o Repeated(34, sig_len)

\* the decoding of wire and roundtrip_ok
WitnessDecoded(wire, suite_id, pub_len, sig_len) ==
    LET suite2 == wire[1]
        pub == dec_compact_size(wire, 1)
        pub2 == IntOf(pub[1])
        pub_bytes == Slice(wire, pub[2], pub[2] + pub2)
        sig == dec_compact_size(wire, pub[2] + pub2)
        sig2 == IntOf(sig[1])
        sig_bytes == Slice(wire, sig[2], sig[2] + sig2)
        off == sig[2] + sig2
    IN [suite2 |-> suite2, pub2 |-> pub2, sig2 |-> sig2, off |-> off,
        roundtrip_ok |-> /\ suite2 = suite_id
                         /\ pub2 = pub_len
                         /\ sig2 = sig_len
                         /\ Len(pub_bytes) = pub_len
                         /\ Len(sig_bytes) = sig_len
                         /\ off = Len(wire)]

WrInit ==
    /\ wr_v \in WitnessVectors
    /\ wr_out = NoResult

RunWitnessRoundtrip ==
    /\ ~wr_out.done
    /\ LET wire == WitnessWire(wr_v.suite_id, wr_v.pubkey_length,
                               wr_v.sig_length)
           dec == WitnessDecoded(wire, wr_v.suite_id, wr_v.pubkey_length,
                                 wr_v.sig_length)
       IN wr_out' = [done |-> TRUE, wire_bytes |-> Len(wire),
                     roundtrip_ok |-> dec.roundtrip_ok, suite2 |-> dec.suite2,
                     pub2 |-> dec.pub2, sig2 |-> dec.sig2, off |-> dec.off]
    /\ UNCHANGED <<wr_v, nonWrVars>>

WrNext == RunWitnessRoundtrip

(***************************************************************************)
(* compact_duplicate_commit: the first commit seen for the target payload  *)
(* is kept, later ones are dropped and their peers penalized.  One step of *)
(* the model is one iteration of the loop over commits; the last step is   *)
(* everything from the end of the loop to the return.                      *)
(***************************************************************************)
\* "" is what str(c.get(..., "")) gives for a missing field
CommitDaIds == {"", "a", "b"}
CommitPeers == {"", "p1", "p2", "p3"}
CommitEntries == [da_id : CommitDaIds, peer : CommitPeers]

\* first_seen_peer = None
None == "None"

DcInit ==
    /\ dc_v \in [da_id : CommitDaIds]
    /\ dc_target = dc_v.da_id
    /\ dc_first = None
    /\ dc_dropped = 0
    /\ dc_penalized = <<>>
    /\ dc_commits = <<>>
    /\ dc_pc = "loop"
    /\ dc_out = NoResult
    /\ dc_problems = 0

\* HandleCommit replacing the retained peer by the peer of every later commit.
HandleCommitLastWins(c) ==
    /\ dc_pc = "loop"
    /\ Len(dc_commits) < MaxCommits
    /\ UNCHANGED nonDcVars
    /\ IF c.da_id = "" \/ c.peer = ""
       THEN /\ dc_problems' = dc_problems + 1
            /\ dc_pc' = "done"
            /\ UNCHANGED <<dc_target, dc_first, dc_dropped, dc_penalized,
                           dc_commits>>
       ELSE /\ dc_target' = IF dc_target = "" THEN c.da_id ELSE dc_target
            /\ IF c.da_id # dc_target'
               THEN UNCHANGED <<dc_first, dc_dropped, dc_penalized>>
               ELSE IF dc_first = None
               THEN dc_first' = c.peer /\ UNCHANGED <<dc_dropped, dc_penalized>>
               ELSE /\ dc_first' = c.peer
                    /\ dc_dropped' = dc_dropped + 1
                    /\ dc_penalized' = Append(dc_penalized, c.peer)
            /\ dc_commits' = Append(dc_commits, c)
            /\ UNCHANGED <<dc_pc, dc_problems>>
    /\ UNCHANGED <<dc_v, dc_out>>

\* HandleCommit without the test da_id != target_da_id.
HandleCommitAnyPayload(c) ==
    /\ dc_pc = "loop"
    /\ Len(dc_commits) < MaxCommits
    /\ UNCHANGED nonDcVars
    /\ IF c.da_id = "" \/ c.peer = ""
       THEN /\ dc_problems' = dc_problems + 1
            /\ dc_pc' = "done"
            /\ UNCHANGED <<dc_target, dc_first, dc_dropped, dc_penalized,
                           dc_commits>>
       ELSE /\ dc_target' = IF dc_target = "" THEN c.da_id ELSE dc_target
            /\ IF dc_first = None
               THEN dc_first' = c.peer /\ UNCHANGED <<dc_dropped, dc_penalized>>
               ELSE /\ dc_dropped' = dc_dropped + 1
                    /\ dc_penalized' = Append(dc_penalized, c.peer)
                    /\ UNCHANGED dc_first
            /\ dc_commits' = Append(dc_commits, c)
            /\ UNCHANGED <<dc_pc, dc_problems>>
    /\ UNCHANGED <<dc_v, dc_out>>

\* for c in commits: one iteration
HandleCommit(c) ==
    /\ dc_pc = "loop"
    /\ Len(dc_commits) < MaxCommits
    /\ UNCHANGED nonDcVars
    /\ IF c.da_id = "" \/ c.peer = ""
       THEN /\ dc_problems' = dc_problems + 1
            /\ dc_pc' = "done"
            /\ UNCHANGED <<dc_target, dc_first, dc_dropped, dc_penalized,
                           dc_commits>>
       ELSE /\ dc_target' = IF dc_target = "" THEN c.da_id ELSE dc_target
            /\ IF c.da_id # dc_target'
               THEN UNCHANGED <<dc_first, dc_dropped, dc_penalized>>
               ELSE IF dc_first = None
               THEN dc_first' = c.peer /\ UNCHANGED <<dc_dropped, dc_penalized>>
               ELSE /\ dc_dropped' = dc_dropped + 1
                    /\ dc_penalized' = Append(dc_penalized, c.peer)
                    /\ UNCHANGED dc_first
            /\ dc_commits' = Append(dc_commits, c)
            /\ UNCHANGED <<dc_pc, dc_problems>>
    /\ UNCHANGED <<dc_v, dc_out>>

\* len(commits) == 0: a problem is reported and the operation returns
NoCommits ==
    /\ dc_pc = "loop"
    /\ dc_commits = <<>>
    /\ UNCHANGED nonDcVars
    /\ dc_problems' = dc_problems + 1
    /\ dc_pc' = "done"
    /\ UNCHANGED <<dc_v, dc_target, dc_first, dc_dropped, dc_penalized,
                   dc_commits, dc_out>>

\* after the loop: replaced = False and the report
FinishDuplicateCommit ==
    /\ dc_pc = "loop"
    /\ dc_commits # <<>>
    /\ UNCHANGED nonDcVars
    /\ dc_out' = [done |-> TRUE, retained_peer |-> dc_first,
                  duplicates_dropped |-> dc_dropped,
                  penalized_peers |-> dc_penalized, replaced |-> FALSE]
    /\ dc_pc' = "done"
    /\ UNCHANGED <<dc_v, dc_target, dc_first, dc_dropped, dc_penalized,
                   dc_commits, dc_problems>>

DcNext ==
    \/ \E c \in CommitEntries : HandleCommit(c)
    \/ NoCommits
    \/ FinishDuplicateCommit

(***************************************************************************)
(* compact_prefill_roundtrip and compact_collision_fallback.  An index     *)
(* list of a vector is a sequence of ints; prefilled_indices and           *)
(* mempool_indices, of which the code keeps the set of elements only, are  *)
(* drawn ascending and duplicate-free, blocktxn_indices and                *)
(* missing_indices in any order and with duplicates.                       *)
(***************************************************************************)
TxCounts == -1 .. MaxTxCount
\* MaxTxCount is out of range for every tx_count of the model
TxIndices == 0 .. MaxTxCount

\* sorted(S) for a set of ints
RECURSIVE SortedSet(_)
SortedSet(S) ==
    IF S = {} THEN <<>>
    ELSE LET m == CHOOSE x \in S : \A y \in S : y <= x
         IN Append(SortedSet(S \ {m}), m)

\* the ascending sequence s with x inserted after the elements not above it
InsertInt(s, x) ==
    LET k == Cardinality({i \in 1 .. Len(s) : s[i] <= x})
    IN SubSeq(s, 1, k) \o <<x>> \o SubSeq(s, k + 1, Len(s))

\* as_sorted_ints(values) for a list of ints
RECURSIVE as_sorted_ints(_)
as_sorted_ints(values) ==
    IF values = <<>> THEN <<>>
    ELSE InsertInt(as_sorted_ints(SubSeq(values, 1, Len(values) - 1)),
                   values[Len(values)])

\* set(s) for a list s
SetOf(s) == {s[i] : i \in 1 .. Len(s)}

\* missing = sorted([i for i in sorted(all_indices - prefilled)
\*                   if i not in mempool])
PrefillMissing(tx_count, prefilled, mempool) ==
    LET all_indices == 0 .. (tx_count - 1)
        shortid_indices == SortedSet(all_indices \ prefilled)
    IN SortedSet({shortid_indices[i] : i \in 1 .. Len(shortid_indices)}
                     \ mempool)

\* reconstructed, true for every response that covers the missing indices.
PrefillReconstructedCovering(request_getblocktxn, blocktxn, missing) ==
    ~request_getblocktxn \/ SetOf(missing) \subseteq SetOf(blocktxn)

\* reconstructed = False
\* if not request_getblocktxn: reconstructed = True
\* elif blocktxn == missing: reconstructed = True
PrefillReconstructed(request_getblocktxn, blocktxn, missing) ==
    ~request_getblocktxn \/ blocktxn = missing

IndexLists(maxlen) == UNION {[1 .. n -> TxIndices] : n \in 0 .. maxlen}
AscendingLists == {SortedSet(S) : S \in SUBSET TxIndices}

PrefillVectors ==
    [op : {"compact_prefill_roundtrip"},
     tx_count : TxCounts,
     prefilled_indices : AscendingLists,
     mempool_indices : AscendingLists,
     blocktxn_indices : IndexLists(MaxResponse)]

CollisionVectors ==
    [op : {"compact_collision_fallback"},
     missing_indices : IndexLists(MaxResponse),
     getblocktxn_ok : BOOLEAN]

PfInit ==
    /\ pf_v \in PrefillVectors \cup CollisionVectors
    /\ pf_out = NoResult

\* op == "compact_prefill_roundtrip"
RunPrefillRoundtrip ==
    /\ pf_v.op = "compact_prefill_roundtrip"
    /\ ~pf_out.done
    /\ LET tx_count == pf_v.tx_count
           prefilled == SetOf(as_sorted_ints(pf_v.prefilled_indices))
           mempool == SetOf(as_sorted_ints(pf_v.mempool_indices))
           blocktxn == as_sorted_ints(pf_v.blocktxn_indices)
           missing == PrefillMissing(tx_count, prefilled, mempool)
           request_getblocktxn == Len(missing) > 0
           reconstructed ==
               PrefillReconstructed(request_getblocktxn, blocktxn, missing)
       IN pf_out' = [done |-> TRUE,
                     missing |-> missing,
                     request_getblocktxn |-> request_getblocktxn,
                     reconstructed |-> reconstructed,
                     request_full_block |->
                         request_getblocktxn /\ ~reconstructed]
    /\ UNCHANGED <<pf_v, nonPfVars>>

\* op == "compact_collision_fallback"
RunCollisionFallback ==
    /\ pf_v.op = "compact_collision_fallback"
    /\ ~pf_out.done
    /\ LET missing == as_sorted_ints(pf_v.missing_indices)
           request_getblocktxn == Len(missing) > 0
       IN pf_out' = [done |-> TRUE,
                     request_getblocktxn |-> request_getblocktxn,
                     request_full_block |->
                         request_getblocktxn /\ ~pf_v.getblocktxn_ok,
                     penalize_peer |-> FALSE]
    /\ UNCHANGED <<pf_v, nonPfVars>>

PfNext == RunPrefillRoundtrip \/ RunCollisionFallback

(***************************************************************************)
(* compact_grace_period and compact_peer_quality as functions of their     *)
(* vector, run on the same start_score, events and elapsed_blocks.  The    *)
(* events are names that deltas knows.                                     *)
(***************************************************************************)
\* the score after the loop over events
RECURSIVE ScoreAfterEvents(_, _, _)
ScoreAfterEvents(score, events, grace) ==
    IF events = <<>> THEN score
    ELSE ScoreAfterEvents(AfterEvent(score, Head(events), grace), Tail(events),
                          grace)

\* the score compact_grace_period reports
GracePeriodScore(start_score, events, elapsed_blocks, grace_period_blocks) ==
    ScoreAfterEvents(start_score, events, elapsed_blocks < grace_period_blocks)

\* the score compact_peer_quality reports
PeerQualityScore(start_score, events, elapsed_blocks, grace) ==
    Decayed(ScoreAfterEvents(start_score, events, grace), elapsed_blocks \div 144)

EventLists == UNION {[1 .. n -> QualityEvents] : n \in 0 .. MaxEvents}

AgreementVectors ==
    [start_score : StartScores, events : EventLists,
     elapsed_blocks : ElapsedBlocks, grace_period_blocks : GracePeriodBlocks]

AgInit ==
    /\ ag_v \in AgreementVectors
    /\ ag_gp = NoResult
    /\ ag_pq = NoResult

\* op == "compact_grace_period" on start_score, events, elapsed_blocks and
\* grace_period_blocks
RunGracePeriod ==
    /\ ~ag_gp.done
    /\ LET grace_active == ag_v.elapsed_blocks < ag_v.grace_period_blocks
           score == GracePeriodScore(ag_v.start_score, ag_v.events,
                                     ag_v.elapsed_blocks,
                                     ag_v.grace_period_blocks)
       IN ag_gp' = [done |-> TRUE, score |-> score,
                    grace_active |-> grace_active,
                    disconnect |-> (score < 5) /\ ~grace_active]
    /\ UNCHANGED <<ag_v, ag_pq, nonAgVars>>

\* op == "compact_peer_quality" on start_score, events and elapsed_blocks,
\* with grace_period_active = (elapsed_blocks < grace_period_blocks)
RunPeerQuality ==
    /\ ~ag_pq.done
    /\ LET grace == ag_v.elapsed_blocks < ag_v.grace_period_blocks
           score == PeerQualityScore(ag_v.start_score, ag_v.events,
                                     ag_v.elapsed_blocks, grace)
       IN ag_pq' = [done |-> TRUE, score |-> score,
                    mode |-> ModeOfScore(score)]
    /\ UNCHANGED <<ag_v, ag_gp, nonAgVars>>

AgNext == RunGracePeriod \/ RunPeerQuality

\* Idle values of an operation's variables in the other specifications.
SMIdle ==
    /\ chunk_count = 0 /\ ttl_cfg = 0 /\ initial_chunks = {}
    /\ initial_commit_seen = FALSE /\ chunks = {} /\ commit_seen = FALSE
    /\ state = "A" /\ pinned = FALSE /\ ttl = 0 /\ ttl_reset_count = 0
    /\ evicted = FALSE /\ checkblock_results = <<>> /\ sm_problems = 0
    /\ commits_handled = 0 /\ ticks_handled = 0 /\ covered = {}
    /\ last_event = "none" /\ tick_total = 0
    /\ ticks_delivered = 0
    /\ replay = NoResult

AdmOpsIdle == adm_v = [op |-> "none"] /\ adm_out = NoResult

PoolIdle ==
    /\ per_peer_limit = 0 /\ per_da_id_limit = 0 /\ global_limit = 0
    /\ storm_trigger_pct = <<90, 1>>
    /\ peer_bytes = <<>> /\ da_id_bytes = <<>> /\ global_bytes = 0
    /\ pool_last = [admit |-> FALSE, incoming |-> 0, has_commit |-> FALSE,
                    arrivals |-> 0]

EvIdle ==
    entries = <<>> /\ evict_order = <<>> /\ ev_problems = 0 /\ ev_done = FALSE

PqIdle ==
    /\ pq_v = [op |-> "none"] /\ pq_score = 0 /\ pq_pc = "done"
    /\ pq_applied = 0 /\ pq_last = NoEvent /\ pq_out = NoResult
    /\ pq_problems = 0

ScIdle == sc_v = [op |-> "none"] /\ sc_out = NoResult

CsIdle == cs_v = [impl |-> "none"] /\ cs_enc = NoResult /\ cs_dec = NoResult

WrIdle == wr_v = [op |-> "none"] /\ wr_out = NoResult

DcIdle ==
    /\ dc_v = [op |-> "none"] /\ dc_target = "" /\ dc_first = None
    /\ dc_dropped = 0 /\ dc_penalized = <<>> /\ dc_commits = <<>>
    /\ dc_pc = "done" /\ dc_out = NoResult /\ dc_problems = 0

PfIdle == pf_v = [op |-> "none"] /\ pf_out = NoResult

AgIdle == ag_v = [op |-> "none"] /\ ag_gp = NoResult /\ ag_pq = NoResult

\* The DA-set state machine.
Init == SMInit /\ AdmOpsIdle /\ PoolIdle /\ EvIdle /\ PqIdle /\ ScIdle /\ CsIdle /\ WrIdle
    /\ DcIdle /\ PfIdle /\ AgIdle /\ replay = NoResult
Next == SMNext
Spec == Init /\ [][Next]_vars

\* The DA-set state machine run twice on the same vector and events.
InitReplay == SMInit /\ AdmOpsIdle /\ PoolIdle /\ EvIdle /\ PqIdle /\ ScIdle /\ CsIdle /\ WrIdle
    /\ DcIdle /\ PfIdle /\ AgIdle
    /\ replay = ReplayStart(chunk_count, ttl_cfg, initial_chunks, initial_commit_seen)
SpecReplay == InitReplay /\ [][NextReplay]_vars

\* One run of an admission operation.
InitAdmission == AdmOpsInit /\ SMIdle /\ PoolIdle /\ EvIdle /\ PqIdle /\ ScIdle /\ CsIdle /\ WrIdle
    /\ DcIdle /\ PfIdle /\ AgIdle
NextAdmission == AdmOpsNext
SpecAdmission == InitAdmission /\ [][NextAdmission]_vars

\* The orphan pool under a sequence of arrivals.
InitPool == PoolInit /\ SMIdle /\ AdmOpsIdle /\ EvIdle /\ PqIdle /\ ScIdle /\ CsIdle /\ WrIdle
    /\ DcIdle /\ PfIdle /\ AgIdle
NextPool == PoolNext
SpecPool == InitPool /\ [][NextPool]_vars

\* One run of compact_eviction_tiebreak.
InitEviction == EvInit /\ SMIdle /\ AdmOpsIdle /\ PoolIdle /\ PqIdle /\ ScIdle /\ CsIdle /\ WrIdle
    /\ DcIdle /\ PfIdle /\ AgIdle
NextEviction == EvNext
SpecEviction == InitEviction /\ [][NextEviction]_vars

\* One run of compact_peer_quality or compact_grace_period.
InitQuality == PqInit /\ SMIdle /\ AdmOpsIdle /\ PoolIdle /\ EvIdle /\ ScIdle /\ CsIdle /\ WrIdle
    /\ DcIdle /\ PfIdle /\ AgIdle
NextQuality == PqNext
SpecQuality == InitQuality /\ [][NextQuality]_vars

\* One run of compact_sendcmpct_modes.
InitSendcmpct == ScInit /\ SMIdle /\ AdmOpsIdle /\ PoolIdle /\ EvIdle /\ PqIdle /\ CsIdle /\ WrIdle
    /\ DcIdle /\ PfIdle /\ AgIdle
NextSendcmpct == ScNext
SpecSendcmpct == InitSendcmpct /\ [][NextSendcmpct]_vars

\* One value through a compact-size encoder and dec_compact_size.
InitCompactSize == CsInit /\ SMIdle /\ AdmOpsIdle /\ PoolIdle /\ EvIdle /\ PqIdle /\ ScIdle /\ WrIdle
    /\ DcIdle /\ PfIdle /\ AgIdle
NextCompactSize == CsNext
SpecCompactSize == InitCompactSize /\ [][NextCompactSize]_vars

\* One run of compact_witness_roundtrip.
InitWitness == WrInit /\ SMIdle /\ AdmOpsIdle /\ PoolIdle /\ EvIdle /\ PqIdle /\ ScIdle /\ CsIdle
    /\ DcIdle /\ PfIdle /\ AgIdle
NextWitness == WrNext
SpecWitness == InitWitness /\ [][NextWitness]_vars

\* One run of compact_duplicate_commit.
InitDuplicate ==
    DcInit /\ SMIdle /\ AdmOpsIdle /\ PoolIdle /\ EvIdle /\ PqIdle /\ ScIdle
    /\ CsIdle /\ WrIdle /\ PfIdle /\ AgIdle
NextDuplicate == DcNext
SpecDuplicate == InitDuplicate /\ [][NextDuplicate]_vars

\* One run of compact_prefill_roundtrip or compact_collision_fallback.
InitPrefill ==
    PfInit /\ SMIdle /\ AdmOpsIdle /\ PoolIdle /\ EvIdle /\ PqIdle /\ ScIdle
    /\ CsIdle /\ WrIdle /\ DcIdle /\ AgIdle
NextPrefill == PfNext
SpecPrefill == InitPrefill /\ [][NextPrefill]_vars

\* compact_grace_period and compact_peer_quality run on the same inputs.
InitAgreement ==
    AgInit /\ SMIdle /\ AdmOpsIdle /\ PoolIdle /\ EvIdle /\ PqIdle /\ ScIdle
    /\ CsIdle /\ WrIdle /\ DcIdle /\ PfIdle
NextAgreement == AgNext
SpecAgreement == InitAgreement /\ [][NextAgreement]_vars

(***************************************************************************)
(* Claims about compact_state_machine, checked under Spec.                 *)
(***************************************************************************)

\* C1: once the record has been evicted by a tick (the evicted flag, which
\* only tick sets, or the state EVICTED, which only tick enters), every
\* state after any further events is EVICTED with an empty received set,
\* commit_seen = false, pinned = false and ttl = 0.
C1_EvictedAbsorbing ==
    (evicted \/ state = "EVICTED") =>
        /\ evicted
        /\ state = "EVICTED"
        /\ chunks = {}
        /\ commit_seen = FALSE
        /\ pinned = FALSE
        /\ ttl = 0

\* C1 witness: a commit was handled after the eviction (the record started
\* in A and no commit reset its TTL, so the commit came after the tick that
\* evicted it) and the event handled last is a chunk.
C1_Witness ==
    /\ state = "EVICTED"
    /\ ~initial_commit_seen
    /\ commits_handled >= 1
    /\ ttl_reset_count = 0
    /\ covered # {}
    /\ last_event = "chunk"

\* C2 (the claim as stated): pinned implies state C, and state C implies
\* commit_seen and a received set of exactly chunk_count elements.
C2_PinnedImpliesComplete ==
    /\ pinned => state = "C"
    /\ state = "C" => (commit_seen /\ Cardinality(chunks) = chunk_count)

\* C3: from A with an empty received set and chunk_count >= 1, a tick-free
\* run of exactly one commit and chunk events covering 0..chunk_count-1 is in
\* state C with pinned = true, wherever the commit stood.
C3_Confluence ==
    ( /\ ~initial_commit_seen
      /\ initial_chunks = {}
      /\ chunk_count >= 1
      /\ ticks_handled = 0
      /\ commits_handled = 1
      /\ covered = 0 .. (chunk_count - 1)
      /\ Looping )
    => (state = "C" /\ pinned)

\* C3 witness: the commit was not the last event of such a run (a chunk
\* completed the set after it), for the largest chunk_count of the model.
C3_Witness ==
    /\ ~initial_commit_seen
    /\ initial_chunks = {}
    /\ chunk_count = MaxChunkCount
    /\ ticks_handled = 0
    /\ commits_handled = 1
    /\ covered = 0 .. (chunk_count - 1)
    /\ last_event = "chunk"
    /\ ttl_reset_count = 1
    /\ state = "C"

\* The observable state of a run with the locals r.
Observable(r) ==
    <<r.state, r.pinned, r.ttl, r.ttl_reset_count, r.evicted,
      r.checkblock_results>>

\* Two runs given the same snapshot and the same events so far have the same
\* observable state.
ReplayIdentical ==
    <<state, pinned, ttl, ttl_reset_count, evicted, checkblock_results>>
        = Observable(replay)

C5_CountersWithinLimits ==
    /\ \A p \in DOMAIN peer_bytes : peer_bytes[p] <= per_peer_limit
    /\ \A d \in DOMAIN da_id_bytes : da_id_bytes[d] <= per_da_id_limit
    /\ global_bytes <= global_limit

\* C5 witness: after several arrivals a peer's counter and a payload's
\* counter sit exactly on their limits and an item of more than 0 bytes has
\* just been rejected.
C5_Witness ==
    /\ pool_last.arrivals = 2
    /\ ~pool_last.admit
    /\ pool_last.incoming > 0
    /\ \E p \in DOMAIN peer_bytes : peer_bytes[p] = per_peer_limit
    /\ \E d \in DOMAIN da_id_bytes : da_id_bytes[d] = per_da_id_limit
    /\ global_bytes > 0

LimitsRan == adm_v.op = "compact_orphan_limits" /\ adm_out.done
StormRan == adm_v.op = "compact_orphan_storm" /\ adm_out.done
BearingRan == adm_v.op = "compact_storm_commit_bearing" /\ adm_out.done

\* C6 (SpecAdmission): compact_orphan_limits answers with a boolean, true
\* exactly when peer, payload and global bytes plus the incoming bytes are
\* each within their limit; landing exactly on the limits is admitted, one
\* byte more on a single counter is rejected.
C6_BaseRule ==
    LimitsRan =>
        LET peer == adm_v.current_peer_bytes + adm_v.incoming_chunk_bytes
            da_id == adm_v.current_da_id_bytes + adm_v.incoming_chunk_bytes
            glob == adm_v.current_global_bytes + adm_v.incoming_chunk_bytes
        IN /\ adm_out.admit \in BOOLEAN
           /\ adm_out.admit <=> ( /\ peer <= adm_v.per_peer_limit
                                  /\ da_id <= adm_v.per_da_id_limit
                                  /\ glob <= adm_v.global_limit )
           /\ ( /\ peer = adm_v.per_peer_limit
                /\ da_id = adm_v.per_da_id_limit
                /\ glob = adm_v.global_limit ) => adm_out.admit
           /\ ( \/ peer = adm_v.per_peer_limit + 1
                \/ da_id = adm_v.per_da_id_limit + 1
                \/ glob = adm_v.global_limit + 1 ) => ~adm_out.admit

\* C6 witness: an item of more than 0 bytes lands exactly on all three limits
\* and is admitted.
C6_Witness ==
    /\ LimitsRan
    /\ adm_v.incoming_chunk_bytes > 0
    /\ adm_v.current_peer_bytes + adm_v.incoming_chunk_bytes = adm_v.per_peer_limit
    /\ adm_v.current_da_id_bytes + adm_v.incoming_chunk_bytes = adm_v.per_da_id_limit
    /\ adm_v.current_global_bytes + adm_v.incoming_chunk_bytes = adm_v.global_limit
    /\ adm_out.admit

\* C7 (SpecAdmission): storm_mode holds exactly when fill_pct is strictly
\* greater than storm_trigger_pct, where compact_orphan_storm's fill_pct is
\* 100 * current_global_bytes / global_limit (0 when global_limit <= 0; the
\* incoming bytes play no part) and compact_storm_commit_bearing's is the
\* orphan_pool_fill_pct it is given; a fill equal to the trigger gives false.
C7_StormStrict ==
    /\ StormRan =>
          LET t == adm_v.storm_trigger_pct
              g == adm_v.global_limit
              c == adm_v.current_global_bytes
          IN /\ g <= 0 => /\ adm_out.fill_pct[1] = 0
                          /\ (adm_out.storm_mode <=> 0 > t[1])
             /\ g > 0 => /\ adm_out.fill_pct[1] * g
                               = 100 * c * adm_out.fill_pct[2]
                         /\ (adm_out.storm_mode <=> 100 * c * t[2] > t[1] * g)
                         /\ (100 * c * t[2] = t[1] * g => ~adm_out.storm_mode)
    /\ BearingRan =>
          LET t == adm_v.storm_trigger_pct
              f == adm_v.orphan_pool_fill_pct
          IN /\ adm_out.storm_mode <=> f[1] * t[2] > t[1] * f[2]
             /\ f[1] * t[2] = t[1] * f[2] => ~adm_out.storm_mode

\* C7 witness: the pool is filled to exactly 90.0 of 100 with trigger 90.0,
\* and the incoming item would take it above the trigger: no storm.
C7_Witness ==
    /\ StormRan
    /\ adm_v.storm_trigger_pct = <<90, 1>>
    /\ adm_v.global_limit = 100
    /\ adm_v.current_global_bytes = 90
    /\ adm_v.incoming_chunk_bytes > 0
    /\ ~adm_out.storm_mode

\* C8 (SpecAdmission): in storm mode an item that is not commit-bearing is
\* rejected whatever the headroom, and a commit-bearing one is admitted by
\* compact_orphan_storm only if current_global_bytes + incoming fits
\* global_limit; outside storm mode the commit-bearing flag changes nothing.
\* An item is commit-bearing when it holds a commit, a chunk of a known
\* commit or a block with a commit.
C8_StormPriority ==
    /\ StormRan =>
          LET fits == adm_v.current_global_bytes + adm_v.incoming_chunk_bytes
                          <= adm_v.global_limit
          IN /\ (adm_out.storm_mode /\ ~adm_v.incoming_has_commit)
                    => ~adm_out.admit
             /\ (adm_out.storm_mode /\ adm_v.incoming_has_commit)
                    => (adm_out.admit <=> fits)
             /\ ~adm_out.storm_mode => (adm_out.admit <=> fits)
    /\ BearingRan =>
          /\ adm_out.commit_bearing <=>
                 \/ adm_v.contains_commit
                 \/ adm_v.contains_chunk_for_known_commit
                 \/ adm_v.contains_block_with_commit
          /\ (adm_out.storm_mode /\ ~adm_out.commit_bearing) => ~adm_out.admit
          /\ ~adm_out.storm_mode => adm_out.admit

\* C8 witness: scenario C without a commit: 95 of 100 bytes held, trigger
\* 90.0, one incoming byte that fits, and the item is rejected.
C8_Witness ==
    /\ StormRan
    /\ adm_v.global_limit = 100
    /\ adm_v.current_global_bytes = 95
    /\ adm_v.incoming_chunk_bytes = 1
    /\ adm_v.storm_trigger_pct = <<90, 1>>
    /\ ~adm_v.incoming_has_commit
    /\ adm_out.storm_mode
    /\ ~adm_out.admit


(***************************************************************************)
(* Claims about compact_eviction_tiebreak, checked under SpecEviction.     *)
(***************************************************************************)
Permutations(n) ==
    {f \in [1 .. n -> 1 .. n] : \A i, j \in 1 .. n : f[i] = f[j] => i = j}

Permuted(es, f) == [i \in 1 .. Len(es) |-> es[f[i]]]

EvictionRan == ev_done /\ ev_problems = 0

\* C9: the eviction order computed for the entries is the order computed
\* for every permutation of the entries.
C9_PermutationInvariant ==
    EvictionRan =>
        \A f \in Permutations(Len(entries)) :
            EvictOrder(Permuted(entries, f)) = evict_order

\* C9 witness: three entries, two of them with equal fee-density and equal
\* received_time (told apart by da_id alone), supplied out of order.
C9_Witness ==
    /\ EvictionRan
    /\ Len(entries) = 3
    /\ entries[1].fee * entries[2].wire_bytes
           = entries[2].fee * entries[1].wire_bytes
    /\ entries[1].received_time = entries[2].received_time
    /\ entries[1].da_id = <<2>>
    /\ entries[2].da_id = <<1, 2>>
    /\ evict_order # [i \in 1 .. 3 |-> entries[i].da_id]

\* x strictly before y in the documented key: lower fee-density by exact
\* cross-multiplication, then earlier received_time, then smaller da_id.
DocumentedBefore(x, y) ==
    LET lhs == x.fee * y.wire_bytes
        rhs == y.fee * x.wire_bytes
    IN \/ lhs < rhs
       \/ lhs = rhs /\ x.received_time < y.received_time
       \/ lhs = rhs /\ x.received_time = y.received_time
              /\ StrLess(x.da_id, y.da_id)

\* C10: evict_order lists the da_ids of the entries, each entry once, so
\* that no entry stands after one it is strictly before in the key
\* (fee-density by cross-multiplication, received_time, da_id).
C10_AscendingKey ==
    EvictionRan =>
        \E f \in Permutations(Len(entries)) :
            /\ Len(evict_order) = Len(entries)
            /\ \A i \in 1 .. Len(entries) : evict_order[i] = entries[f[i]].da_id
            /\ \A i, j \in 1 .. Len(entries) :
                   i < j => ~DocumentedBefore(entries[f[j]], entries[f[i]])

\* C10 witness: scenario D, a with fee 10 and b with fee 5 per 100 bytes,
\* gives [b, a]; a third entry of the same density as b (10 per 200) and a
\* later received_time stands between them.
C10_Witness ==
    /\ EvictionRan
    /\ Len(entries) = 3
    /\ entries[1] = [da_id |-> <<1>>, fee |-> 10, wire_bytes |-> 100,
                     received_time |-> 0]
    /\ entries[2] = [da_id |-> <<2>>, fee |-> 5, wire_bytes |-> 100,
                     received_time |-> 0]
    /\ entries[3] = [da_id |-> <<1, 2>>, fee |-> 10, wire_bytes |-> 200,
                     received_time |-> 1]
    /\ evict_order = << <<2>>, <<1, 2>>, <<1>> >>


(***************************************************************************)
(* Claims about compact_peer_quality and compact_grace_period, checked     *)
(* under SpecQuality.                                                      *)
(***************************************************************************)

\* C11 (the claim as stated): for any start_score, grace flag, list of known
\* events and elapsed_blocks, the score is within [0,100] after each event
\* application, and the score the operation reports is within [0,100].
C11_ScoreInRange ==
    /\ (pq_pc = "events" /\ pq_applied >= 1) => pq_score \in 0 .. 100
    /\ pq_out.done => pq_out.score \in 0 .. 100

\* The delta the documentation gives for an event: in grace the penalties
\* are -2, -1, -5 and -1, the rewards are unchanged; outside grace every
\* delta has its full value.
DocumentedDelta(ev, grace) ==
    CASE ev = "reconstruct_no_getblocktxn" -> 2
      [] ev = "getblocktxn_first_try" -> 1
      [] ev = "prefetch_completed" -> 1
      [] ev = "incomplete_set" -> IF grace THEN -2 ELSE -5
      [] ev = "getblocktxn_required" -> IF grace THEN -1 ELSE -3
      [] ev = "full_block_required" -> IF grace THEN -5 ELSE -10
      [] ev = "prefetch_cap_exceeded" -> IF grace THEN -1 ELSE -2

\* C12: the score after an event application is the score before it plus
\* the documented delta (penalties halved toward zero while the grace period
\* is active, rewards and out-of-grace deltas at full value), kept within
\* [0,100]; in particular one incomplete_set from 50 in grace gives 48.
C12_GraceHalving ==
    (pq_pc = "events" /\ pq_last.ev # "none") =>
        LET sum == pq_last.before + DocumentedDelta(pq_last.ev, GraceOf(pq_v))
        IN /\ sum \in 0 .. 100 => pq_score = sum
           /\ sum > 100 => pq_score = 100
           /\ sum < 0 => pq_score = 0

\* C12 witness: in grace, the single event incomplete_set took the score
\* from 50 to 48.
C12_Witness ==
    /\ pq_pc = "events"
    /\ GraceOf(pq_v)
    /\ pq_applied = 1
    /\ pq_last = [ev |-> "incomplete_set", before |-> 50]
    /\ pq_score = 48


(***************************************************************************)
(* Claims about compact_sendcmpct_modes, checked under SpecSendcmpct.      *)
(***************************************************************************)

\* The documented rules, each with the conditions under which it is the
\* first one to match.
HighMissRate(p) == FloatGreater(p.miss_rate_pct, <<10, 1>>) /\ p.miss_rate_blocks >= 5
LowMissRate(p) == ~FloatGreater(p.miss_rate_pct, <<1, 2>>)

DocumentedMode(p, mode) ==
    /\ p.in_ibd => mode = 0
    /\ (~p.in_ibd /\ HighMissRate(p)) => mode = 0
    /\ (~p.in_ibd /\ ~HighMissRate(p) /\ p.warmup_done /\ LowMissRate(p)) => mode = 2
    /\ (~p.in_ibd /\ ~HighMissRate(p) /\ p.warmup_done /\ ~LowMissRate(p)) => mode = 1
    /\ (~p.in_ibd /\ ~HighMissRate(p) /\ ~p.warmup_done) => mode = 0

\* C13: the mode of every phase (and of a vector without phases) is the
\* result of the first matching rule of (1) in_ibd -> 0, (2) miss rate above
\* 10.0 over at least 5 blocks -> 0, (3) warmup done and miss rate at most
\* 0.5 -> 2, (4) warmup done -> 1, (5) otherwise 0, computed from that
\* phase's inputs alone: one mode per phase, and equal phases get equal modes
\* wherever they stand in the list.
C13_RelayMode ==
    sc_out.done =>
        IF sc_v.has_phases
        THEN /\ Len(sc_out.modes) = Len(sc_v.phases)
             /\ \A i \in 1 .. Len(sc_v.phases) :
                    DocumentedMode(sc_v.phases[i], sc_out.modes[i])
             /\ \A i, j \in 1 .. Len(sc_v.phases) :
                    sc_v.phases[i] = sc_v.phases[j] =>
                        sc_out.modes[i] = sc_out.modes[j]
        ELSE DocumentedMode(sc_v.payload, sc_out.mode)

\* C13 witness: two phases that differ in in_ibd alone, with the warmup done
\* and a miss rate of 0.5: mode 0 in IBD, then mode 2 with nothing carried
\* over from the first phase.
C13_Witness ==
    /\ sc_out.done
    /\ sc_v.has_phases
    /\ sc_v.phases =
           << [in_ibd |-> TRUE, warmup_done |-> TRUE, miss_rate_pct |-> <<1, 2>>,
               miss_rate_blocks |-> 5],
              [in_ibd |-> FALSE, warmup_done |-> TRUE, miss_rate_pct |-> <<1, 2>>,
               miss_rate_blocks |-> 5] >>
    /\ sc_out.modes = <<0, 2>>


(***************************************************************************)
(* Claims about the compact-size encoding, checked under SpecCompactSize.  *)
(***************************************************************************)

\* The number of base-256 digits of n up to its most significant non-zero
\* one (0 for the value 0).
SignificantDigits(n) ==
    IF \A i \in 1 .. 8 : n[i] = 0 THEN 0
    ELSE CHOOSE i \in 1 .. 8 : n[i] # 0 /\ \A j \in (i + 1) .. 8 : n[j] = 0

\* C14: for every value of [0, 2^64) and each of the three encoders, the
\* encoding is the single byte v for v < 0xFD, 0xFD and 2 bytes for
\* v <= 0xFFFF, 0xFE and 4 bytes for v <= 0xFFFFFFFF, 0xFF and 8 bytes
\* otherwise, the bytes after the prefix being the value least significant
\* byte first; dec_compact_size returns v from it and an offset advanced by
\* exactly the encoded length.
C14_CompactSizeRoundTrip ==
    /\ cs_enc.done =>
           LET n == cs_v.n
               e == cs_enc.bytes
               k == SignificantDigits(n)
               single == k <= 1 /\ n[1] < 253
           IN /\ single => e = <<n[1]>>
              /\ (~single /\ k <= 2) => Len(e) = 3 /\ e[1] = 253
              /\ k \in 3 .. 4 => Len(e) = 5 /\ e[1] = 254
              /\ k >= 5 => Len(e) = 9 /\ e[1] = 255
              /\ \A i \in 2 .. Len(e) : e[i] = n[i - 1]
    /\ cs_dec.done =>
           /\ cs_dec.n = cs_v.n
           /\ cs_dec.off = Len(cs_v.lead) + Len(cs_enc.bytes)

\* C14 witness: 0x010203 was encoded by enc_compact_size into five bytes
\* behind one leading byte, and decoded from offset 1 to offset 6.
C14_Witness ==
    /\ cs_dec.done
    /\ cs_v = [impl |-> "enc_compact_size", n |-> U64(66051), lead |-> <<1>>]
    /\ cs_enc.bytes = <<254, 3, 2, 1, 0>>
    /\ cs_dec.off = 6


(***************************************************************************)
(* Claims about compact_witness_roundtrip, checked under SpecWitness.      *)
(***************************************************************************)

\* The documented length of the compact-size encoding of a length below
\* 2^31: 1 byte below 0xFD, 3 bytes up to 0xFFFF, 5 bytes above.
CompactSizeLength(n) == IF n < 253 THEN 1 ELSE IF n <= 65535 THEN 3 ELSE 5

\* C15: for a suite_id of 0..255 and non-negative lengths, decoding the wire
\* form gives back the suite_id, the pubkey length and the signature length
\* and ends exactly at the end of the buffer (roundtrip_ok is true), and the
\* wire is 1 + len(compact-size(pubkey_len)) + pubkey_len
\* + len(compact-size(sig_len)) + sig_len bytes long.
C15_WitnessRoundTrip ==
    (wr_out.done /\ wr_v.suite_id \in 0 .. 255) =>
        /\ wr_out.roundtrip_ok
        /\ wr_out.suite2 = wr_v.suite_id
        /\ wr_out.pub2 = wr_v.pubkey_length
        /\ wr_out.sig2 = wr_v.sig_length
        /\ wr_out.off = wr_out.wire_bytes
        /\ wr_out.wire_bytes =
               1 + CompactSizeLength(wr_v.pubkey_length) + wr_v.pubkey_length
                 + CompactSizeLength(wr_v.sig_length) + wr_v.sig_length

\* C15 witness: suite 1 with a pubkey of 300 bytes (3-byte length) and a
\* signature of 65536 bytes (5-byte length) made a wire of 65845 bytes that
\* decoded to the same triple.
C15_Witness ==
    /\ wr_out.done
    /\ wr_v = [suite_id |-> 1, pubkey_length |-> 300, sig_length |-> 65536]
    /\ wr_out.roundtrip_ok
    /\ wr_out.wire_bytes = 65845


(***************************************************************************)
(* Claims about compact_duplicate_commit, checked under SpecDuplicate.     *)
(***************************************************************************)

\* The payload_id the run is about: the da_id of the vector, or that of the
\* first commit when the vector gives none.
TargetOfRun == IF dc_v.da_id # "" THEN dc_v.da_id ELSE dc_commits[1].da_id

\* The commits for the payload_id of the run, in arrival order.
CommitsForTarget ==
    IF dc_commits = <<>> THEN <<>>
    ELSE SelectSeq(dc_commits, LAMBDA c : c.da_id = TargetOfRun)

\* C16: as soon as a commit for the payload_id has arrived, the retained
\* peer is the peer of the first such commit in arrival order, whatever
\* commits (same or other payload_id, any peers) arrived after it; the
\* report gives that peer as retained_peer and replaced = false.
C16_FirstCommitRetained ==
    /\ CommitsForTarget # <<>> => dc_first = CommitsForTarget[1].peer
    /\ dc_out.done =>
           /\ dc_out.replaced = FALSE
           /\ CommitsForTarget # <<>> =>
                  dc_out.retained_peer = CommitsForTarget[1].peer

\* C16 witness: the report of a run in which the first commit for the
\* payload came from p1 and later commits for it came from p2 and from p3.
C16_Witness ==
    /\ dc_out.done
    /\ Len(CommitsForTarget) >= 3
    /\ CommitsForTarget[1].peer = "p1"
    /\ CommitsForTarget[2].peer = "p2"
    /\ CommitsForTarget[3].peer = "p3"
    /\ dc_out.retained_peer = "p1"

\* C17: a step that handles a commit for the target payload_id after the
\* first one, from a peer other than the retained one, adds exactly one to
\* duplicates_dropped and appends that peer to penalized_peers; a step that
\* handles a commit for another payload_id changes neither; and
\* duplicates_dropped equals the length of penalized_peers after every step.
C17_DuplicatesPenalized ==
    [][/\ dc_dropped' = Len(dc_penalized')
       /\ Len(dc_commits') = Len(dc_commits) + 1 =>
              LET c == dc_commits'[Len(dc_commits')]
              IN /\ (c.da_id = dc_target' /\ dc_first # None
                        /\ c.peer # dc_first) =>
                        /\ dc_dropped' = dc_dropped + 1
                        /\ dc_penalized' = Append(dc_penalized, c.peer)
                 /\ c.da_id # dc_target' =>
                        UNCHANGED <<dc_dropped, dc_penalized>>]_vars

\* C17 witness: after the first commit from p1, a commit for the payload
\* from p2, one for another payload from p3 and one for the payload from p3
\* left two dropped duplicates and the penalized peers p2, p3.
C17_Witness ==
    /\ dc_commits = << [da_id |-> "a", peer |-> "p1"],
                       [da_id |-> "a", peer |-> "p2"],
                       [da_id |-> "b", peer |-> "p3"],
                       [da_id |-> "a", peer |-> "p3"] >>
    /\ dc_target = "a"
    /\ dc_dropped = 2
    /\ dc_penalized = <<"p2", "p3">>


(***************************************************************************)
(* Claims about the state machine's frame conditions, checked under Spec.  *)
(***************************************************************************)

\* C18 (the claim as stated): from state C, reached by events or constructed
\* from a snapshot, every event leaves the record in state C with
\* pinned = true, and a tick changes neither ttl nor the evicted flag.
C18_StateCStays ==
    [][state = "C" =>
          /\ state' = "C"
          /\ pinned' = TRUE
          /\ last_event' = "tick" => (ttl' = ttl /\ evicted' = evicted)]_vars


\* C19: a commit handled in state A sets ttl to the configured TTL and adds
\* one to ttl_reset_count; handled in state B or C it changes neither;
\* handled in EVICTED it changes nothing of the record; ttl_reset_count is
\* at most 1 after every step; and after a commit that is not ignored
\* commit_seen is true and the record is in C and pinned if the received set
\* has chunk_count elements, in B and not pinned otherwise.
C19_CommitFrame ==
    [][/\ ttl_reset_count' <= 1
       /\ last_event' = "commit" =>
              /\ state = "A" =>
                     ttl' = ttl_cfg /\ ttl_reset_count' = ttl_reset_count + 1
              /\ state \in {"B", "C"} => UNCHANGED <<ttl, ttl_reset_count>>
              /\ state = "EVICTED" => UNCHANGED smRecord
              /\ state # "EVICTED" =>
                     /\ commit_seen' = TRUE
                     /\ chunks' = chunks
                     /\ IF Cardinality(chunks) = chunk_count
                        THEN state' = "C" /\ pinned' = TRUE
                        ELSE state' = "B" /\ pinned' = FALSE]_vars

\* C19 witness: a record that started in A with a partly consumed TTL is in
\* B after two commits, the first of which reset the TTL and the second of
\* which left it and the count alone.
C19_Witness ==
    /\ ~initial_commit_seen
    /\ state = "B"
    /\ commits_handled = 2
    /\ last_event = "commit"
    /\ ticks_handled = 1
    /\ ttl_reset_count = 1
    /\ ttl = ttl_cfg - 1
    /\ tick_total = 1

\* C20: a tick of n blocks handled in state A or B (n is the growth of
\* tick_total) evicts the record when ttl - n <= 0 (state EVICTED, received
\* set empty, commit_seen false, pinned false, ttl 0, evicted true) and
\* otherwise sets ttl to ttl - n and leaves state, received set, commit_seen
\* and pinned alone; and a record that started in A and saw no commit is
\* EVICTED once the ticks it was given total the configured TTL or more.
C20_TickEvicts ==
    [][/\ (last_event' = "tick" /\ state \in {"A", "B"}) =>
              LET n == tick_total' - tick_total
              IN IF ttl - n <= 0
                 THEN /\ state' = "EVICTED"
                      /\ chunks' = {}
                      /\ commit_seen' = FALSE
                      /\ pinned' = FALSE
                      /\ ttl' = 0
                      /\ evicted' = TRUE
                 ELSE /\ ttl' = ttl - n
                      /\ UNCHANGED <<state, chunks, commit_seen, pinned>>
       /\ (~initial_commit_seen' /\ commits_handled' = 0 /\ ticks_handled' = 1
              /\ tick_total' >= ttl_cfg) => state' = "EVICTED"]_vars

\* C20 witness: a record in A with the largest chunk_count and the TTL of 3
\* received chunk 0 and no commit and was evicted by a tick of 3 blocks.
C20_Witness ==
    /\ chunk_count = MaxChunkCount
    /\ ttl_cfg = 3
    /\ initial_chunks = {}
    /\ ~initial_commit_seen
    /\ covered = {0}
    /\ commits_handled = 0
    /\ last_event = "tick"
    /\ tick_total = 3
    /\ state = "EVICTED"
    /\ evicted

\* C21: a step that handles a chunk event whose index lies outside
\* [0, chunk_count) changes neither state, received set, commit_seen, pinned,
\* ttl nor ttl_reset_count, in whatever state the record is, and reports no
\* problem.  Such a step is a chunk step that adds no index to covered, the
\* in-range indices of the chunk events handled; the formula is about every
\* chunk step that adds none (the index is out of range or was handled
\* before).
C21_OutOfRangeChunkDropped ==
    [][(last_event' = "chunk" /\ covered' = covered) =>
          /\ UNCHANGED <<state, chunks, commit_seen, pinned, ttl,
                         ttl_reset_count>>
          /\ sm_problems' = 0]_vars

\* C21 witness: a record holding chunk 0 of 2 with the commit seen (state B)
\* has handled chunk events, all of them out of range (none of the indices
\* handled lies in [0, chunk_count)), the last event being one of them.
C21_Witness ==
    /\ chunk_count = 2
    /\ initial_chunks = {0}
    /\ initial_commit_seen
    /\ last_event = "chunk"
    /\ covered = {}
    /\ commits_handled = 0
    /\ ticks_handled = 0
    /\ state = "B"
    /\ chunks = {0}
    /\ sm_problems = 0

\* C22 (the claim as stated, for a chunk_count of 1 or more): a step that
\* handles a checkblock event changes neither state, received set,
\* commit_seen, pinned, ttl nor ttl_reset_count, and appends to the results
\* the value that is true exactly when commit_seen holds and every index of
\* [0, chunk_count) is in the received set.
C22_CheckblockReadOnly ==
    [][(last_event' = "checkblock" /\ chunk_count >= 1) =>
          /\ UNCHANGED <<state, chunks, commit_seen, pinned, ttl,
                         ttl_reset_count>>
          /\ checkblock_results' =
                 Append(checkblock_results,
                        commit_seen /\ (0 .. chunk_count - 1) \subseteq chunks)]_vars

(***************************************************************************)
(* Claims about the reconstruction operations, checked under SpecPrefill.  *)
(***************************************************************************)

\* the indices of [0, tx_count) that are neither prefilled nor resolvable
\* from the mempool
DocumentedMissing(v) ==
    {i \in 0 .. (v.tx_count - 1) :
        /\ \A k \in 1 .. Len(v.prefilled_indices) : v.prefilled_indices[k] # i
        /\ \A k \in 1 .. Len(v.mempool_indices) : v.mempool_indices[k] # i}

\* the response, sorted, is the list of the elements of S in ascending
\* order: it has as many entries as S has elements and holds each of them
ResponseIsExactly(response, S) ==
    /\ Len(response) = Cardinality(S)
    /\ \A i \in S : \E k \in 1 .. Len(response) : response[k] = i

\* C23: compact_prefill_roundtrip reports as missing the ascending list of
\* the indices of [0, tx_count) that are neither prefilled nor in the
\* mempool; reconstructed is true iff that set is empty or the getblocktxn
\* response, sorted, is exactly that list; request_full_block is true iff
\* reconstructed is false; and a full block is requested only when
\* getblocktxn was needed (in compact_collision_fallback as well).
C23_Reconstruction ==
    /\ (pf_out.done /\ pf_v.op = "compact_prefill_roundtrip") =>
           LET miss == DocumentedMissing(pf_v)
           IN /\ Len(pf_out.missing) = Cardinality(miss)
              /\ \A k \in 1 .. Len(pf_out.missing) : pf_out.missing[k] \in miss
              /\ \A k \in 1 .. Len(pf_out.missing) - 1 :
                     pf_out.missing[k] < pf_out.missing[k + 1]
              /\ pf_out.reconstructed <=>
                     (miss = {} \/ ResponseIsExactly(pf_v.blocktxn_indices, miss))
              /\ pf_out.request_full_block <=> ~pf_out.reconstructed
              /\ pf_out.request_full_block => pf_out.request_getblocktxn
              /\ pf_out.request_getblocktxn <=> miss # {}
    /\ (pf_out.done /\ pf_v.op = "compact_collision_fallback") =>
           (pf_out.request_full_block => pf_out.request_getblocktxn)

\* C23 witness: of two transactions none is prefilled or in the mempool,
\* and the response carries both indices in descending order: missing is
\* [0, 1], the block is reconstructed and no full block is requested.
C23_Witness ==
    /\ pf_out.done
    /\ pf_v.op = "compact_prefill_roundtrip"
    /\ pf_v.tx_count = 2
    /\ pf_v.prefilled_indices = <<>>
    /\ pf_v.mempool_indices = <<>>
    /\ pf_v.blocktxn_indices = <<1, 0>>
    /\ pf_out.missing = <<0, 1>>
    /\ pf_out.reconstructed
    /\ ~pf_out.request_full_block

(***************************************************************************)
(* Further claims about the peer-quality score, checked under SpecQuality. *)
(***************************************************************************)

\* C24: compact_grace_period reports disconnect exactly when the score after
\* all events is below 5 and elapsed_blocks >= grace_period_blocks; while
\* elapsed_blocks < grace_period_blocks it reports no disconnect, whatever
\* the start score and the events, a score of 0 included.
C24_NoDisconnectInGrace ==
    (pq_out.done /\ pq_v.op = "compact_grace_period") =>
        /\ pq_out.disconnect <=>
               (pq_score < 5 /\ pq_v.elapsed_blocks >= pq_v.grace_period_blocks)
        /\ pq_v.elapsed_blocks < pq_v.grace_period_blocks => ~pq_out.disconnect

\* C24 witness: within the grace period of 1440 blocks the halved penalty
\* of full_block_required took a score of 4 or 5 to 0, and compact_grace_period
\* reports the score 0 and no disconnect.
C24_Witness ==
    /\ pq_out.done
    /\ pq_v.op = "compact_grace_period"
    /\ pq_v.grace_period_blocks = 1440
    /\ pq_v.elapsed_blocks = 1439
    /\ pq_v.start_score \in {4, 5}
    /\ pq_last = [ev |-> "full_block_required", before |-> pq_v.start_score]
    /\ pq_score = 0
    /\ pq_out.score = 0
    /\ ~pq_out.disconnect

\* the distance of a score from the baseline 50
DistanceFromBaseline(score) == IF score >= 50 THEN score - 50 ELSE 50 - score

\* the full 144-block intervals in elapsed_blocks
FullIntervals(elapsed_blocks) ==
    IF elapsed_blocks < 0 THEN 0
    ELSE CHOOSE n \in 0 .. elapsed_blocks :
             144 * n <= elapsed_blocks /\ elapsed_blocks < 144 * (n + 1)

\* C25: the step of compact_peer_quality that applies the baseline decay
\* moves the score one point toward 50 for each full 144-block interval of
\* elapsed_blocks and stops at 50: the score stays on its side of 50, a
\* partial interval changes nothing, and with at least as many full
\* intervals as the score is away from 50 the result is exactly 50.
C25_BaselineDecay ==
    [][(pq_v.op = "compact_peer_quality" /\ pq_pc = "events" /\ pq_out'.done) =>
          LET n == FullIntervals(pq_v.elapsed_blocks)
              d == DistanceFromBaseline(pq_score)
              k == IF n <= d THEN n ELSE d
          IN /\ pq_score' = IF pq_score >= 50 THEN pq_score - k ELSE pq_score + k
             /\ pq_score >= 50 => pq_score' >= 50
             /\ pq_score <= 50 => pq_score' <= 50
             /\ n = 0 => pq_score' = pq_score
             /\ n >= d => pq_score' = 50
             /\ pq_out'.score = pq_score']_vars

\* C25 witness: a score of 52 and no events, 300 elapsed blocks (two full
\* intervals and a partial one): the reported score is 50.
C25_Witness ==
    /\ pq_out.done
    /\ pq_v.op = "compact_peer_quality"
    /\ pq_v.start_score = 52
    /\ pq_applied = 0
    /\ pq_v.elapsed_blocks = 300
    /\ pq_out.score = 50

(***************************************************************************)
(* Further claims about compact_state_machine, checked under Spec.         *)
(***************************************************************************)

\* C26 (the claim as stated, for a record constructed in state A with an
\* empty snapshot): with chunk_count <= 0 the record is never in state C,
\* never pinned, and no checkblock has returned true.
C26_NonPositiveCountRejected ==
    (chunk_count <= 0 /\ ~initial_commit_seen /\ initial_chunks = {}) =>
        /\ state # "C"
        /\ ~pinned
        /\ \A i \in 1 .. Len(checkblock_results) : ~checkblock_results[i]

\* C27 (the claim as stated): with a configured TTL of 1 or more and ticks
\* of non-negative block counts only, a record constructed in A or B is in
\* C or EVICTED once the ticks it has handled total twice the configured
\* TTL, whatever commit and chunk events were interleaved.
C27_BoundedProtection ==
    (/\ ttl_cfg >= 1
     /\ InitialState(initial_commit_seen, initial_chunks, chunk_count) \in {"A", "B"}
     /\ ticks_delivered >= 2 * ttl_cfg) => state \in {"C", "EVICTED"}

\* C28 (the claim as stated): in every reachable state ttl is at least 0 and
\* at most the configured TTL, whatever block counts the ticks carry.
C28_TtlWithinConfigured == 0 <= ttl /\ ttl <= ttl_cfg

(***************************************************************************)
(* A further claim about compact_duplicate_commit, checked under           *)
(* SpecDuplicate.                                                          *)
(***************************************************************************)

\* C29 (the claim as stated): the retained peer is never among the
\* penalized peers, and a step that handles a commit sent by the retained
\* peer leaves duplicates_dropped as it is.
C29_RetainedPeerNotPenalized ==
    [][/\ \A i \in 1 .. Len(dc_penalized') : dc_penalized'[i] # dc_first'
       /\ (/\ Len(dc_commits') = Len(dc_commits) + 1
           /\ dc_first # None
           /\ dc_commits'[Len(dc_commits')].peer = dc_first) =>
              dc_dropped' = dc_dropped]_vars

(***************************************************************************)
(* The two scoring operations compared, checked under SpecAgreement.       *)
(***************************************************************************)

\* C30 (the claim as stated): run on the same start_score, events and
\* elapsed_blocks, with grace_period_active = (elapsed_blocks <
\* grace_period_blocks), compact_grace_period and compact_peer_quality
\* report the same score.
C30_ScoresAgree ==
    (ag_gp.done /\ ag_pq.done) => ag_gp.score = ag_pq.score


=============================================================================
